---- MODULE Spec2Model ----
(***************************************************************************)
(* Virtio9p (lib/9p-filer.js): the 9P2000.L request dispatcher, its tag    *)
(* registry, fid table and reply buffer, with the backend's completions    *)
(* as separate steps.                                                      *)
(***************************************************************************)
EXTENDS Integers, Sequences, FiniteSets, TLC

\* ------------------------------------------------------------------ bounds

\* number of request frames one behaviour delivers to ReceiveRequest
MaxRequests == 3
\* the client picks its tags in 1..MaxTag
MaxTag == 2
\* the client picks its fids in 0..MaxFid
MaxFid == 1
\* number of request frames in the behaviours of SpecSendError
MaxErrorRequests == 2
\* number of request frames in the behaviours of SpecSession
MaxSessionRequests == 2
\* number of request frames in the behaviours of SpecReadlink
MaxReadlinkRequests == 2
\* number of request frames in the behaviours of SpecWalk, and the largest
\* nwname of their Twalk frames
MaxWalkRequests == 3
MaxWalk == 2
\* length of the longest symlink target the backend holds
MaxTargetLen == 16380
\* number of request frames in the behaviours of SpecCreate
MaxCreateRequests == 4
\* number of request frames in the behaviours of SpecRead
MaxReadRequests == 4
\* number of request frames in the behaviours of SpecReaddir
MaxReaddirRequests == 3
\* number of request frames in the behaviours of SpecSetattr
MaxSetattrRequests == 3
\* number of request frames in the behaviours of SpecNodes
MaxNodeRequests == 3
\* number of request frames in the behaviours of SpecQid
MaxQidRequests == 3
\* number of request frames in the behaviours of SpecState
MaxStateRequests == 3
\* number of request frames in the behaviours of SpecFds
MaxFdRequests == 4
\* number of request frames in the behaviours of SpecFlush
MaxFlushRequests == 4
\* number of request frames in the behaviours of SpecFids
MaxFidsRequests == 3
\* number of request frames in the behaviours of SpecReuse
MaxReuseRequests == 5
\* number of calls made on the MemoryFileStorage in the behaviours of
\* SpecMemory
MaxMemoryCalls == 3
\* the load_from_server calls made on one ServerPackStorageWrapper
MaxPackCalls == 3

Tags == 1..MaxTag
Fids == 0..MaxFid

\* ------------------------------------------------------- program constants

P9_TSTATFS == 8
P9_TLOPEN == 12
P9_TLCREATE == 14
P9_TSYMLINK == 16
P9_TMKNOD == 18
P9_TREADLINK == 22
P9_TGETATTR == 24
P9_TSETATTR == 26
P9_TXATTRWALK == 30
P9_TXATTRCREATE == 32
P9_TREADDIR == 40
P9_TFSYNC == 50
P9_TLOCK == 52
P9_TLINK == 70
P9_TMKDIR == 72
P9_TRENAMEAT == 74
P9_TUNLINKAT == 76
P9_TVERSION == 100
P9_TATTACH == 104
P9_TFLUSH == 108
P9_TWALK == 110
P9_TREAD == 116
P9_TWRITE == 118
P9_TCLUNK == 120
\* message ids no case of the switch handles: one with a name, one without
P9_TGETLOCK == 54
UnknownIds == {P9_TGETLOCK, 200}
\* the id SendError hands to BuildReply (Rlerror = 7)
P9_LERROR == 6

P9_SETATTR_MODE == 1
P9_SETATTR_UID == 2
P9_SETATTR_GID == 4
P9_SETATTR_SIZE == 8
P9_SETATTR_ATIME == 16
P9_SETATTR_MTIME == 32
P9_SETATTR_CTIME == 64
P9_SETATTR_ATIME_SET == 128
P9_SETATTR_MTIME_SET == 256

P9_QTDIR == 128
P9_QTSYMLINK == 2
P9_QTFILE == 0

FID_INODE == 1
FID_NONE == 0 - 1
FID_XATTR == 2
V9FS_MAGIC == 16916887

\* this.msize as the constructor sets it
InitMsize == 8192
BLOCKSIZE == 8192
\* this.deviceid, this.hostfeature and the bytes of this.configspace
deviceid == 9
hostfeature == 1
configspace == <<6, 0, 104, 111, 115, 116, 57, 112>>
\* this.VERSION: the char codes of "9P2000.L"
VERSION == <<57, 80, 50, 48, 48, 48, 46, 76>>

\* the value of a JavaScript expression that is undefined (a missing key)
Undefined == 0 - 1

POSIX_ERR_CODE_MAP ==
    [EPERM |-> 1, ENOENT |-> 2, EBADF |-> 9, EBUSY |-> 11, EINVAL |-> 22,
     ENOTDIR |-> 20, EISDIR |-> 21, EEXIST |-> 17, ELOOP |-> 40,
     ENOTEMPTY |-> 39, EIO |-> 5]

\* error kinds the backend reports in this model: "" is "no error", the
\* kinds of the table, and one kind the table does not have
NoErr == ""
BackendErrs == {"ENOENT", "ENOSPC"}

\* ------------------------------------------------------------- marshaller

\* v as n little-endian bytes; undefined converts to 0 (v & 0xFF)
RECURSIVE LEbytes(_, _)
LEbytes(x, n) == IF n = 0 THEN <<>> ELSE <<x % 256>> \o LEbytes(x \div 256, n - 1)

LE(v, n) == LEbytes(IF v = Undefined THEN 0 ELSE v, n)

RECURSIVE Marshall(_, _)
Marshall(typelist, input) ==
    IF typelist = <<>> THEN <<>>
    ELSE LET t == Head(typelist)
             item == Head(input)
             bytes == CASE t = "b" -> LE(item, 1)
                        [] t = "h" -> LE(item, 2)
                        [] t = "w" -> LE(item, 4)
                        [] t = "d" -> LE(item, 8)
                        [] t = "s" -> LE(Len(item), 2) \o item
                        [] t = "Q" -> LE(item.type, 1) \o LE(item.version, 4)
                                      \o LE(item.path.lo, 2) \o LE(item.path.hi, 2)
                                      \o LE(0, 4)
         IN  bytes \o Marshall(Tail(typelist), Tail(input))

\* a Uint8Array: its length and the bytes up to the highest offset written;
\* every byte after them is still 0
NewBuffer(n) == [length |-> n, data |-> <<>>]

ByteAt(buf, i) == IF i < Len(buf.data) THEN buf.data[i + 1] ELSE 0

Max(a, b) == IF a > b THEN a ELSE b
Min(a, b) == IF a < b THEN a ELSE b

\* struct[offset++] = byte, for each byte; a store past the end is dropped
WriteBytes(buf, offset, bytes) ==
    LET hi == Max(Len(buf.data), Min(offset + Len(bytes), buf.length))
    IN  [buf EXCEPT !.data =
            [k \in 1..hi |->
                IF k - 1 >= offset /\ k - 1 < offset + Len(bytes)
                THEN bytes[k - offset]
                ELSE ByteAt(buf, k - 1)]]

\* --------------------------------------------------------------- QID

\* an unsigned 32-bit number is kept as its two 16-bit halves
U32(hi, lo) == [hi |-> hi % 65536, lo |-> lo % 65536]

RECURSIVE Xor(_, _, _)
Xor(a, b, bits) ==
    IF bits = 0 THEN 0
    ELSE ((a + b) % 2) + 2 * Xor(a \div 2, b \div 2, bits - 1)

\* hash = (hash * 33) ^ string.charCodeAt(--i), on 32 bits
RECURSIVE hash32loop(_, _, _)
hash32loop(string, i, hash) ==
    IF i = 0 THEN hash
    ELSE LET lo33 == hash.lo * 33
             times33 == U32(hash.hi * 33 + lo33 \div 65536, lo33)
             c == string[i]
         IN  hash32loop(string, i - 1,
                        U32(Xor(times33.hi, c \div 65536, 16),
                            Xor(times33.lo, c % 65536, 16)))

hash32(string) == hash32loop(string, Len(string), U32(0, 5381))

getQType(type) ==
    CASE type = "FILE" -> P9_QTFILE
      [] type = "DIRECTORY" -> P9_QTDIR
      [] type = "SYMLINK" -> P9_QTSYMLINK
      [] OTHER -> P9_QTFILE

formatQid(path, stats) ==
    [type |-> getQType(stats.type), version |-> stats.version,
     path |-> hash32(stats.node)]

\* what the backend's stat may report: a node is a string of char codes
\* and mode has the file type in the bits from 12 up (S_IFDIR | 0755,
\* S_IFREG | 0644); the other fields are those Tgetattr reads
StatsSet ==
    {[type |-> "DIRECTORY", version |-> 1, node |-> <<97>>, uid |-> 0,
      mode |-> 16877, gid |-> 0, nlinks |-> 1, size |-> 0,
      atimeMs |-> 0, mtimeMs |-> 0, ctimeMs |-> 0],
     [type |-> "FILE", version |-> 2, node |-> <<98, 99>>, uid |-> 1000,
      mode |-> 33188, gid |-> 1000, nlinks |-> 2, size |-> 3,
      atimeMs |-> 2000, mtimeMs |-> 1500, ctimeMs |-> 0],
     [type |-> "DIRECTORY", version |-> 3, node |-> <<100>>, uid |-> 1000,
      mode |-> 16877, gid |-> 1000, nlinks |-> 1, size |-> 0,
      atimeMs |-> 0, mtimeMs |-> 0, ctimeMs |-> 0]}

\* the node of the root directory
RootStats == CHOOSE s \in StatsSet : s.node = <<97>>

\* what stat may report for a path: the root's node for "/", any other node
\* for another path
StatsOf(path) == IF path = "/" THEN {RootStats} ELSE StatsSet \ {RootStats}

\* ------------------------------------------------------------------ state

VARIABLES
    fids,             \* this.fids: bound fid -> fid record
    pendingTags,      \* this.pendingTags: registered tag -> scratch object
    msize,            \* this.msize
    replybuffer,      \* this.replybuffer
    replybuffersize,  \* this.replybuffersize
    requests,         \* every frame received so far, with its handler's position;
                      \* the position in the sequence is the transport's index
    sent,             \* the replies signalled through SendReply, in order
    sessionAborted,   \* message.Abort() was called
    filedata,         \* MemoryFileStorage: this.filedata, sha256sum -> data
    storageLog,       \* the calls made on the MemoryFileStorage so far, each
                      \* read with the value its promise was fulfilled with
    use_pack,         \* ServerPackStorageWrapper: the use_pack it was built with
    fileInfoMap,      \* this.fileInfoMap: prefix -> promise of the info map
    packMap,          \* this.packMap: prefix -> promise of the pack buffer
    kv,               \* this.kv is set (the IndexedDB store was opened)
    idb,              \* the IndexedDB table behind this.kv: url -> value
    loads,            \* the v86util.load_file requests made so far
    packCalls         \* the load_from_server calls made so far

\* the fields of the Virtio9p device and its transport
deviceVars == <<fids, pendingTags, msize, replybuffer, replybuffersize,
                requests, sent, sessionAborted>>

\* the fields of the file storages (browser/filestorage.js)
packVars == <<use_pack, fileInfoMap, packMap, kv, idb, loads, packCalls>>

storageVars == <<filedata, storageLog, use_pack, fileInfoMap, packMap, kv,
                 idb, loads, packCalls>>

vars == <<fids, pendingTags, msize, replybuffer, replybuffersize, requests,
          sent, sessionAborted, filedata, storageLog, use_pack, fileInfoMap,
          packMap, kv, idb, loads, packCalls>>

\* ServerPackStorageWrapper constructor: no promise stored, this.kv null
\* until the IndexedDB store has been opened
PackConstructed(up) ==
    /\ use_pack = up
    /\ fileInfoMap = [p \in {} |-> 0]
    /\ packMap = [p \in {} |-> 0]
    /\ kv = FALSE
    /\ loads = <<>>
    /\ packCalls = <<>>

\* the device fields a handler works on, as one value
Dev == [fids |-> fids, pendingTags |-> pendingTags, msize |-> msize,
        replybuffer |-> replybuffer, replybuffersize |-> replybuffersize]

\* the JavaScript object {}
EmptyObject == [k \in {} |-> 0]

Createfid(path, type, uid) == [path |-> path, type |-> type, uid |-> uid]

\* obj[key], which is undefined for a key the object does not have
Prop(obj, key) == IF key \in DOMAIN obj THEN obj[key] ELSE Undefined

addTag(d, tag) ==
    [d EXCEPT !.pendingTags =
        [t \in DOMAIN @ \cup {tag} |-> IF t = tag THEN EmptyObject ELSE @[t]]]

flushTag(d, tag) ==
    [d EXCEPT !.pendingTags = [t \in DOMAIN @ \ {tag} |-> @[t]]]

shouldAbortRequest(d, tag) == tag \notin DOMAIN d.pendingTags

\* BuildReply emptying the whole tag registry
BuildReply_FlushesAll(d, id, tag, payloadsize) ==
    [d EXCEPT
        !.replybuffer =
            WriteBytes(@, 0, Marshall(<<"w", "b", "h">>,
                                      <<payloadsize + 7, id + 1, tag>>)),
        !.replybuffersize = payloadsize + 7,
        !.pendingTags = [t \in {} |-> 0]]

BuildReply(d, id, tag, payloadsize) ==
    flushTag(
        [d EXCEPT
            !.replybuffer =
                WriteBytes(@, 0, Marshall(<<"w", "b", "h">>,
                                          <<payloadsize + 7, id + 1, tag>>)),
            !.replybuffersize = payloadsize + 7],
        tag)

\* SendError building its reply under the id of Rlerror itself
SendError_WrongId(d, tag, err) ==
    LET errorcode == IF err \in DOMAIN POSIX_ERR_CODE_MAP
                     THEN POSIX_ERR_CODE_MAP[err] ELSE Undefined
        bytes == Marshall(<<"w">>, <<errorcode>>)
    IN  BuildReply([d EXCEPT !.replybuffer = WriteBytes(@, 7, bytes)],
                   P9_LERROR + 1, tag, Len(bytes))

\* err is err.code
SendError(d, tag, err) ==
    LET errorcode == IF err \in DOMAIN POSIX_ERR_CODE_MAP
                     THEN POSIX_ERR_CODE_MAP[err] ELSE Undefined
        bytes == Marshall(<<"w">>, <<errorcode>>)
    IN  BuildReply([d EXCEPT !.replybuffer = WriteBytes(@, 7, bytes)],
                   P9_LERROR, tag, Len(bytes))

\* the frame the transport takes from the reply buffer on SendReply
Frame(d) == [k \in 1..d.replybuffersize |-> ByteAt(d.replybuffer, k - 1)]

Init ==
    /\ fids = [f \in {} |-> 0]
    /\ pendingTags = [t \in {} |-> 0]
    /\ msize = InitMsize
    /\ replybuffer = NewBuffer(InitMsize * 2)
    /\ replybuffersize = 0
    /\ requests = <<>>
    /\ sent = <<>>
    /\ sessionAborted = FALSE
    /\ filedata = [h \in {} |-> <<>>]
    /\ storageLog = <<>>
    /\ PackConstructed([idb_key |-> FALSE, prefix_length |-> 1])
    /\ idb = [u \in {} |-> 0]

\* ------------------------------------------------------- handler plumbing

\* the device fields take the values of d
Commit(d) ==
    /\ fids' = d.fids
    /\ pendingTags' = d.pendingTags
    /\ msize' = d.msize
    /\ replybuffer' = d.replybuffer
    /\ replybuffersize' = d.replybuffersize

\* the client keeps tags unique among its outstanding requests: it reuses a
\* tag only once every earlier request with that tag was answered or flushed
Replied(i) == \E k \in 1..Len(sent) : sent[k].index = i
TagFree(tag) ==
    \A i \in 1..Len(requests) :
        requests[i].tag = tag => (Replied(i) \/ requests[i].flushed)

NewRequest(id, tag, fid, arg, path, pc, wait) ==
    [id |-> id, tag |-> tag, fid |-> fid, arg |-> arg, path |-> path,
     pc |-> pc, wait |-> wait,
     \* history: a Tflush named its tag before it was answered; the fid it
     \* named was not bound when it arrived; the error its handler reported
     flushed |-> FALSE, unbound |-> FALSE, err |-> NoErr,
     \* its body was shorter than the format its handler unmarshals
     malformed |-> FALSE]

CanReceive(tag) == TagFree(tag)

\* a frame arrives and its handler runs up to its first backend call, to its
\* reply (replies = TRUE) or to an exception
Arrive(d, req, replies) ==
    /\ Commit(d)
    /\ requests' = Append(requests, req)
    /\ sent' = IF replies
               THEN Append(sent, [index |-> Len(requests) + 1, frame |-> Frame(d)])
               ELSE sent
    /\ UNCHANGED sessionAborted

\* request i's callback ends the handler with self.SendReply(0, index)
Reply(i, d) ==
    /\ Commit(d)
    /\ requests' = [requests EXCEPT ![i].pc = "done", ![i].wait = {}]
    /\ sent' = Append(sent, [index |-> i, frame |-> Frame(d)])
    /\ UNCHANGED sessionAborted

\* request i's callback ends the handler with self.SendError(tag, err);
\* self.SendReply(0, index)
ReplyError(i, err) ==
    LET d == SendError(Dev, requests[i].tag, err)
    IN
    /\ Commit(d)
    /\ requests' = [requests EXCEPT ![i].pc = "done", ![i].wait = {},
                                    ![i].err = err]
    /\ sent' = Append(sent, [index |-> i, frame |-> Frame(d)])
    /\ UNCHANGED sessionAborted

\* request i's callback returns on shouldAbortRequest
Abort(i) ==
    /\ requests' = [requests EXCEPT ![i].pc = "aborted", ![i].wait = {}]
    /\ UNCHANGED <<fids, pendingTags, msize, replybuffer, replybuffersize,
                   sent, sessionAborted>>

Waiting(i, id, call) ==
    /\ requests[i].id = id
    /\ requests[i].pc = "wait"
    /\ call \in requests[i].wait

\* ------------------------------------------------------------- handlers

Uids == {1000}
\* the afid field of Tattach: NOFID (0xFFFFFFFF), as its two halves
NOFID == [hi |-> 65535, lo |-> 65535]
Outcomes == {NoErr} \cup BackendErrs

\* Tattach binding its fid only when afid is NOFID
Tattach_ChecksAfid(tag, fid, afid, uid) ==
    /\ CanReceive(tag)
    /\ LET d1 == addTag(Dev, tag)
           d2 == [d1 EXCEPT !.fids =
                    [f \in DOMAIN @ \cup {fid} |->
                        IF f = fid THEN Createfid("/", FID_INODE, uid) ELSE @[f]]]
       IN  Arrive(IF afid = NOFID THEN d2 ELSE d1,
                  NewRequest(P9_TATTACH, tag, fid, [afid |-> afid, uid |-> uid],
                             "/", "wait", {"stat"}),
                  FALSE)

\* case P9_TATTACH, up to fs.stat('/'); afid (req[1]) is only printed
Tattach(tag, fid, afid, uid) ==
    /\ CanReceive(tag)
    /\ LET d1 == addTag(Dev, tag)
           d2 == [d1 EXCEPT !.fids =
                    [f \in DOMAIN @ \cup {fid} |->
                        IF f = fid THEN Createfid("/", FID_INODE, uid) ELSE @[f]]]
       IN  Arrive(d2, NewRequest(P9_TATTACH, tag, fid, [afid |-> afid, uid |-> uid],
                                "/", "wait", {"stat"}),
                  FALSE)

\* case P9_TATTACH, the callback of fs.stat('/')
TattachStat(i, err, stats) ==
    /\ Waiting(i, P9_TATTACH, "stat")
    /\ LET tag == requests[i].tag
       IN  IF shouldAbortRequest(Dev, tag) THEN Abort(i)
           ELSE IF err # NoErr THEN ReplyError(i, err)
           ELSE LET qid == formatQid("/", stats)
                    d1 == [Dev EXCEPT !.replybuffer =
                            WriteBytes(@, 7, Marshall(<<"Q">>, <<qid>>))]
                IN  Reply(i, BuildReply(d1, P9_TATTACH, tag, 13))

\* case P9_TATTACH of a frame whose body ends before the fields of
\* ["w", "w", "s", "s", "w"] do. ReceiveRequest compares no length and catches
\* nothing: either the unmarshaller raises an exception, which leaves
\* ReceiveRequest after addTag, or it returns some values for the missing
\* fields and the handler runs on with them
TattachShort(tag, throws, fid, uid) ==
    /\ CanReceive(tag)
    /\ IF throws
       THEN Arrive(addTag(Dev, tag),
                   [NewRequest(P9_TATTACH, tag, fid, 0, "", "threw", {})
                        EXCEPT !.malformed = TRUE],
                   FALSE)
       ELSE LET d1 == addTag(Dev, tag)
                d2 == [d1 EXCEPT !.fids =
                        [f \in DOMAIN @ \cup {fid} |->
                            IF f = fid THEN Createfid("/", FID_INODE, uid) ELSE @[f]]]
            IN  Arrive(d2,
                       [NewRequest(P9_TATTACH, tag, fid, [afid |-> NOFID, uid |-> uid],
                                   "/", "wait", {"stat"})
                            EXCEPT !.malformed = TRUE],
                       FALSE)

\* the msize values the client asks for
Msizes == {4096, 8192, 16384}

\* case P9_TVERSION; the version string of the request is only printed
Tversion(tag, m) ==
    /\ CanReceive(tag)
    /\ LET d1 == addTag(Dev, tag)
           d2 == [d1 EXCEPT !.msize = m]
           bytes == Marshall(<<"w", "s">>, <<d2.msize, VERSION>>)
           d3 == [d2 EXCEPT !.replybuffer = WriteBytes(@, 7, bytes)]
       IN  Arrive(BuildReply(d3, P9_TVERSION, tag, Len(bytes)),
                  NewRequest(P9_TVERSION, tag, 0, m, "", "done", {}),
                  TRUE)

\* the handler reads this.fids[fid].path of a fid that is not bound: the
\* TypeError leaves ReceiveRequest after addTag
Throw(id, tag, fid, arg) ==
    Arrive(addTag(Dev, tag),
           [NewRequest(id, tag, fid, arg, "", "threw", {}) EXCEPT !.unbound = TRUE],
           FALSE)

\* case P9_TLOPEN, up to fs.stat(path); the request's arg is, as history,
\* the stats reported
Tlopen(tag, fid) ==
    /\ CanReceive(tag)
    /\ IF fid \notin DOMAIN fids THEN Throw(P9_TLOPEN, tag, fid, <<>>)
       ELSE Arrive(addTag(Dev, tag),
                   NewRequest(P9_TLOPEN, tag, fid, <<>>, fids[fid].path, "wait",
                              {"stat"}),
                   FALSE)

\* case P9_TLOPEN, the callback of fs.stat(path)
TlopenStat(i, err, stats) ==
    /\ Waiting(i, P9_TLOPEN, "stat")
    /\ LET tag == requests[i].tag
       IN  IF shouldAbortRequest(Dev, tag) THEN Abort(i)
           ELSE IF err # NoErr THEN ReplyError(i, err)
           ELSE LET qid == formatQid(requests[i].path, stats)
                    d1 == [Dev EXCEPT !.replybuffer =
                            WriteBytes(@, 7, Marshall(<<"Q", "w">>,
                                                      <<qid, Dev.msize - 24>>))]
                    d2 == BuildReply(d1, P9_TLOPEN, tag, 13 + 4)
                IN  /\ Commit(d2)
                    /\ requests' = [requests EXCEPT ![i].pc = "done",
                                                    ![i].wait = {},
                                                    ![i].arg = <<stats>>]
                    /\ sent' = Append(sent, [index |-> i, frame |-> Frame(d2)])
                    /\ UNCHANGED sessionAborted

\* Path.join(path, part) for a part that is a plain name
Join(path, part) == IF path = "/" THEN path \o part ELSE path \o "/" \o part

\* the names of a Twalk frame
WalkNames == <<"a", "b", "c">>
Walks == {SubSeq(WalkNames, 1, n) : n \in 0..MaxWalk}

\* _walk(path, pathParts) of request i on device d, after the callbacks so
\* far left w as the walk's variables: with no part left it builds and sends
\* Rwalk, else it joins the next part and calls fs.stat
Walk(d, i, tag, path, w, req, arrives) ==
    IF w.rest = <<>> \/ Head(w.rest) = ""
    THEN LET d1 == [d EXCEPT !.replybuffer =
                        WriteBytes(@, 7, Marshall(<<"h">>, <<w.nwidx>>))]
             d2 == BuildReply(d1, P9_TWALK, tag, w.offset - 7)
             r == [req EXCEPT !.pc = "done", !.wait = {}, !.arg = w]
         IN  /\ Commit(d2)
             /\ requests' = IF arrives THEN Append(requests, r)
                             ELSE [requests EXCEPT ![i] = r]
             /\ sent' = Append(sent, [index |-> i, frame |-> Frame(d2)])
             /\ UNCHANGED sessionAborted
    ELSE LET next == Join(path, Head(w.rest))
             r == [req EXCEPT !.pc = "wait", !.wait = {"stat"}, !.path = next,
                              !.arg = [w EXCEPT !.rest = Tail(@),
                                                !.statted = Append(@, next)]]
         IN  /\ Commit(d)
             /\ requests' = IF arrives THEN Append(requests, r)
                             ELSE [requests EXCEPT ![i] = r]
             /\ UNCHANGED <<sent, sessionAborted>>

\* Twalk with nwname = 0 handing fid's record over to nwfid
WalkAlias_MovesFid(d, fid, nwfid) ==
    [d EXCEPT !.fids =
        [f \in (DOMAIN @ \ {fid}) \cup {nwfid} |->
            IF f = nwfid
            THEN Createfid(d.fids[fid].path, FID_INODE, Prop(d.fids[fid], "uid"))
            ELSE @[f]]]

\* self.fids[nwfid] = self.Createfid(self.fids[fid].path, FID_INODE,
\* self.fids[fid].uid)
WalkAlias(d, fid, nwfid) ==
    [d EXCEPT !.fids =
        [f \in DOMAIN @ \cup {nwfid} |->
            IF f = nwfid
            THEN Createfid(d.fids[fid].path, FID_INODE, Prop(d.fids[fid], "uid"))
            ELSE @[f]]]

\* case P9_TWALK, up to its reply (nwname = 0) or its first fs.stat. The
\* request's arg holds the walk's variables and, as history, the fid table
\* and fid's path on arrival, the paths statted and the stats reported
Twalk(tag, fid, nwfid, wnames) ==
    /\ CanReceive(tag)
    /\ IF fid \notin DOMAIN fids
       THEN Throw(P9_TWALK, tag, fid,
                  [nwfid |-> nwfid, wnames |-> wnames, rest |-> wnames,
                   offset |-> 7 + 2, nwidx |-> 0, fids0 |-> fids, path0 |-> "",
                   statted |-> <<>>, stats |-> <<>>])
       ELSE LET d1 == addTag(Dev, tag)
                w == [nwfid |-> nwfid, wnames |-> wnames, rest |-> wnames,
                      offset |-> 7 + 2, nwidx |-> 0, fids0 |-> fids,
                      path0 |-> fids[fid].path,
                      statted |-> <<>>, stats |-> <<>>]
                req == NewRequest(P9_TWALK, tag, fid, w, fids[fid].path, "wait", {})
            IN  IF Len(wnames) = 0
                THEN LET d2 == WalkAlias(d1, fid, nwfid)
                         d3 == [d2 EXCEPT !.replybuffer =
                                WriteBytes(@, 7, Marshall(<<"h">>, <<0>>))]
                     IN  Arrive(BuildReply(d3, P9_TWALK, tag, 2),
                                [req EXCEPT !.pc = "done"], TRUE)
                ELSE Walk(d1, Len(requests) + 1, tag, fids[fid].path, w, req, TRUE)

\* case P9_TWALK, the callback of fs.stat(path) in _walk
TwalkStat(i, err, stats) ==
    /\ Waiting(i, P9_TWALK, "stat")
    /\ LET tag == requests[i].tag
           path == requests[i].path
           w == requests[i].arg
       IN  IF shouldAbortRequest(Dev, tag) THEN Abort(i)
           ELSE IF err # NoErr THEN ReplyError(i, err)
           ELSE LET qid == formatQid(path, stats)
                    d1 == [Dev EXCEPT !.fids =
                            [f \in DOMAIN @ \cup {w.nwfid} |->
                                IF f = w.nwfid
                                THEN Createfid(path, FID_INODE, stats.uid)
                                ELSE @[f]]]
                    d2 == [d1 EXCEPT !.replybuffer =
                            WriteBytes(@, w.offset, Marshall(<<"Q">>, <<qid>>))]
                    w2 == [w EXCEPT !.offset = @ + 13, !.nwidx = @ + 1,
                                    !.stats = Append(@, stats)]
                IN  Walk(d2, i, tag, path, w2, requests[i], FALSE)

\* what the stat of request i's path may call back with: below a component
\* that is a file there is nothing, else the path exists or not
WalkStatResults(i) ==
    LET w == requests[i].arg
    IN  IF w.stats # <<>> /\ w.stats[Len(w.stats)].type = "FILE"
        THEN {[err |-> "ENOTDIR", stats |-> RootStats]}
        ELSE {[err |-> "ENOENT", stats |-> RootStats]}
             \cup {[err |-> NoErr, stats |-> st] : st \in StatsOf(requests[i].path)}

\* the targets fs.readlink may report: "/a", and a string of MaxTargetLen
\* characters
LinkTargets == {<<47, 97>>, [k \in 1..MaxTargetLen |-> 97]}

\* case P9_TREADLINK, up to fs.readlink(path)
Treadlink(tag, fid) ==
    /\ CanReceive(tag)
    /\ IF fid \notin DOMAIN fids THEN Throw(P9_TREADLINK, tag, fid, 0)
       ELSE Arrive(addTag(Dev, tag),
                   NewRequest(P9_TREADLINK, tag, fid, 0, fids[fid].path, "wait",
                              {"readlink"}),
                   FALSE)

\* case P9_TREADLINK, the callback of fs.readlink(path); the length of
\* contents is kept in the request's arg
TreadlinkDone(i, err, contents) ==
    /\ Waiting(i, P9_TREADLINK, "readlink")
    /\ LET tag == requests[i].tag
       IN  IF shouldAbortRequest(Dev, tag) THEN Abort(i)
           ELSE IF err # NoErr THEN ReplyError(i, err)
           ELSE LET bytes == Marshall(<<"s">>, <<contents>>)
                    d1 == [Dev EXCEPT !.replybuffer = WriteBytes(@, 7, bytes)]
                    d2 == BuildReply(d1, P9_TREADLINK, tag, Len(bytes))
                IN  /\ Commit(d2)
                    /\ requests' = [requests EXCEPT ![i].pc = "done",
                                                    ![i].wait = {},
                                                    ![i].arg = Len(contents)]
                    /\ sent' = Append(sent, [index |-> i, frame |-> Frame(d2)])
                    /\ UNCHANGED sessionAborted

Bit(mask, bit) == (mask \div bit) % 2 = 1

\* case P9_TSETATTR: the backend calls the promises issue. A time is truthy
\* when its plain bit is set (now) unless its _SET bit replaces it by
\* seconds * 1000
SetattrCalls(valid, atime_sec, mtime_sec) ==
    LET atime == IF Bit(valid, P9_SETATTR_ATIME_SET) THEN atime_sec # 0
                 ELSE Bit(valid, P9_SETATTR_ATIME)
        mtime == IF Bit(valid, P9_SETATTR_MTIME_SET) THEN mtime_sec # 0
                 ELSE Bit(valid, P9_SETATTR_MTIME)
    IN  (IF Bit(valid, P9_SETATTR_MODE) THEN {"chmod"} ELSE {})
        \cup (IF Bit(valid, P9_SETATTR_UID) /\ Bit(valid, P9_SETATTR_GID)
              THEN {"chown"} ELSE {})
        \cup (IF atime \/ mtime THEN {"utimes"} ELSE {})
        \cup (IF Bit(valid, P9_SETATTR_SIZE) THEN {"truncate"} ELSE {})

\* the request masks the client sends in this model
SetattrMasks == {0, 1, 9}
\* the seconds of its atime and mtime fields
SetattrSecs == {0}
\* the request masks of SpecSetattr: none, MODE, UID alone, UID and GID,
\* MODE and SIZE, ATIME, CTIME, ATIME_SET, ATIME with ATIME_SET and MTIME_SET
SetattrGroupMasks == {0, 1, 2, 6, 9, 16, 64, 128, 400}
\* and the seconds of their atime and mtime fields
SetattrGroupSecs == {0, 5}

\* the value Date.now() returns in this model
Nows == {1700}

\* case P9_TSETATTR: the atime and mtime handed to fs.utimes
UtimesArgs(valid, atime_sec, mtime_sec, now) ==
    [atime |-> IF Bit(valid, P9_SETATTR_ATIME_SET) THEN atime_sec * 1000
               ELSE IF Bit(valid, P9_SETATTR_ATIME) THEN now ELSE Undefined,
     mtime |-> IF Bit(valid, P9_SETATTR_MTIME_SET) THEN mtime_sec * 1000
               ELSE IF Bit(valid, P9_SETATTR_MTIME) THEN now ELSE Undefined]

\* case P9_TSETATTR, up to Promise.all(promises); with no promise at all the
\* then-callback runs as soon as ReceiveRequest has returned. The request's
\* arg is, as history, its mask, its seconds, the clock it read and the
\* utimes calls it issued
Tsetattr(tag, fid, valid, atime_sec, mtime_sec) ==
    /\ CanReceive(tag)
    /\ IF fid \notin DOMAIN fids THEN Throw(P9_TSETATTR, tag, fid, valid)
       ELSE \E now \in Nows :
            LET calls == SetattrCalls(valid, atime_sec, mtime_sec)
                d1 == addTag(Dev, tag)
                arg == [valid |-> valid, atime_sec |-> atime_sec,
                        mtime_sec |-> mtime_sec, now |-> now,
                        utimes |-> IF "utimes" \in calls
                                   THEN <<UtimesArgs(valid, atime_sec,
                                                     mtime_sec, now)>>
                                   ELSE <<>>]
            IN  IF calls = {}
                THEN Arrive(BuildReply(d1, P9_TSETATTR, tag, 0),
                            NewRequest(P9_TSETATTR, tag, fid, arg,
                                       fids[fid].path, "done", {}),
                            TRUE)
                ELSE Arrive(d1, NewRequest(P9_TSETATTR, tag, fid, arg,
                                           fids[fid].path, "wait", calls),
                            FALSE)

\* case P9_TSETATTR: one of chmod, chown, utimes, truncate calls back and
\* settles its promise; the first rejection runs the catch-callback, the
\* last resolution the then-callback
TsetattrCall(i, call, err) ==
    /\ requests[i].id = P9_TSETATTR
    /\ call \in requests[i].wait
    /\ LET tag == requests[i].tag
           rest == requests[i].wait \ {call}
       IN  IF requests[i].pc = "done"
           THEN /\ requests' = [requests EXCEPT ![i].wait = rest]
                /\ UNCHANGED <<fids, pendingTags, msize, replybuffer,
                               replybuffersize, sent, sessionAborted>>
           ELSE IF err # NoErr \/ rest = {}
           THEN LET d == IF err # NoErr THEN SendError(Dev, tag, err)
                         ELSE BuildReply(Dev, P9_TSETATTR, tag, 0)
                IN  /\ Commit(d)
                    /\ requests' = [requests EXCEPT ![i].pc = "done",
                                                    ![i].wait = rest,
                                                    ![i].err = err]
                    /\ sent' = Append(sent, [index |-> i, frame |-> Frame(d)])
                    /\ UNCHANGED sessionAborted
           ELSE /\ requests' = [requests EXCEPT ![i].wait = rest]
                /\ UNCHANGED <<fids, pendingTags, msize, replybuffer,
                               replybuffersize, sent, sessionAborted>>

\* Tflush without this.flushTag(oldtag)
Tflush_KeepsOldtag(tag, oldtag) ==
    /\ CanReceive(tag)
    /\ LET d == BuildReply(addTag(Dev, tag), P9_TFLUSH, tag, 0)
       IN  /\ Commit(d)
           /\ requests' =
                Append([j \in 1..Len(requests) |->
                            IF requests[j].tag = oldtag /\ ~Replied(j)
                            THEN [requests[j] EXCEPT !.flushed = TRUE]
                            ELSE requests[j]],
                       NewRequest(P9_TFLUSH, tag, 0, oldtag, "", "done", {}))
           /\ sent' = Append(sent, [index |-> Len(requests) + 1,
                                    frame |-> Frame(d)])
           /\ UNCHANGED sessionAborted

\* case P9_TFLUSH
Tflush(tag, oldtag) ==
    /\ CanReceive(tag)
    /\ LET d == BuildReply(flushTag(addTag(Dev, tag), oldtag), P9_TFLUSH, tag, 0)
       IN  /\ Commit(d)
           /\ requests' =
                Append([j \in 1..Len(requests) |->
                            IF requests[j].tag = oldtag /\ ~Replied(j)
                            THEN [requests[j] EXCEPT !.flushed = TRUE]
                            ELSE requests[j]],
                       NewRequest(P9_TFLUSH, tag, 0, oldtag, "", "done", {}))
           /\ sent' = Append(sent, [index |-> Len(requests) + 1,
                                    frame |-> Frame(d)])
           /\ UNCHANGED sessionAborted

\* case P9_TCLUNK
Tclunk(tag, fid) ==
    /\ CanReceive(tag)
    /\ IF fid \notin DOMAIN fids THEN Throw(P9_TCLUNK, tag, fid, 0)
       ELSE LET d1 == addTag(Dev, tag)
                d2 == [d1 EXCEPT !.fids = [f \in DOMAIN @ \ {fid} |-> @[f]]]
            IN  Arrive(BuildReply(d2, P9_TCLUNK, tag, 0),
                       NewRequest(P9_TCLUNK, tag, fid, 0, fids[fid].path, "done", {}),
                       TRUE)

\* the names of the files a Tlcreate, Tmknod or Tunlinkat frame gives
FileNames == {"x"}

\* what fstat or stat may report for a file that was just created
FileStats == {s \in StatsSet : s.type = "FILE"}

\* case P9_TLCREATE, up to fs.open(newFilePath, 'w+', mode). The request's arg
\* holds newFilePath and, as history, fid's path on arrival, whether the
\* open gave an fd, how often fs.close was called and the stats reported
Tlcreate(tag, fid, name) ==
    /\ CanReceive(tag)
    /\ IF fid \notin DOMAIN fids THEN Throw(P9_TLCREATE, tag, fid, 0)
       ELSE Arrive(addTag(Dev, tag),
                   NewRequest(P9_TLCREATE, tag, fid,
                              [name |-> name, path0 |-> fids[fid].path,
                               opened |-> FALSE, closes |-> 0, stats |-> <<>>],
                              Join(fids[fid].path, name), "wait", {"open"}),
                   FALSE)

\* request i's callback returns on shouldAbortRequest after if(fd) fs.close(fd)
AbortClosing(i, fd) ==
    /\ requests' = [requests EXCEPT ![i].pc = "aborted", ![i].wait = {},
                                    ![i].arg.opened = @ \/ fd,
                                    ![i].arg.closes = IF fd THEN @ + 1 ELSE @]
    /\ UNCHANGED <<fids, pendingTags, msize, replybuffer, replybuffersize,
                   sent, sessionAborted>>

\* case P9_TLCREATE, the callback of fs.open: with no error it has an fd
TlcreateOpen(i, err) ==
    /\ Waiting(i, P9_TLCREATE, "open")
    /\ LET tag == requests[i].tag
       IN  IF shouldAbortRequest(Dev, tag) THEN AbortClosing(i, err = NoErr)
           ELSE IF err # NoErr THEN ReplyError(i, err)
           ELSE /\ requests' = [requests EXCEPT ![i].wait = {"fstat"},
                                                ![i].arg.opened = TRUE]
                /\ UNCHANGED <<fids, pendingTags, msize, replybuffer,
                               replybuffersize, sent, sessionAborted>>

\* case P9_TLCREATE, the callback of fs.fstat(fd); uid is a variable of
\* ReceiveRequest that this request never assigned
TlcreateFstat(i, err, stats) ==
    /\ Waiting(i, P9_TLCREATE, "fstat")
    /\ LET tag == requests[i].tag
           fid == requests[i].fid
           newFilePath == requests[i].path
       IN  IF shouldAbortRequest(Dev, tag) THEN AbortClosing(i, TRUE)
           ELSE IF err # NoErr THEN ReplyError(i, err)
           ELSE LET d1 == [Dev EXCEPT !.fids =
                            [f \in DOMAIN @ \cup {fid} |->
                                IF f = fid
                                THEN Createfid(newFilePath, FID_INODE, Undefined)
                                ELSE @[f]]]
                    qid == formatQid(newFilePath, stats)
                    d2 == [d1 EXCEPT !.replybuffer =
                            WriteBytes(@, 7, Marshall(<<"Q", "w">>,
                                                      <<qid, d1.msize - 24>>))]
                    d3 == BuildReply(d2, P9_TLCREATE, tag, 13 + 4)
                IN  /\ Commit(d3)
                    /\ requests' = [requests EXCEPT ![i].pc = "done",
                                                    ![i].wait = {},
                                                    ![i].arg.closes = @ + 1,
                                                    ![i].arg.stats = <<stats>>]
                    /\ sent' = Append(sent, [index |-> i, frame |-> Frame(d3)])
                    /\ UNCHANGED sessionAborted

\* what fs.readFile may report for the file at "/a"
FileContents == {<<10, 20, 30>>}
\* the offset and count fields of the Tread frames
ReadOffsets == {0, 2, 3, 5}
ReadCounts == {2}

\* case P9_TREAD, function _read(data): clamps count, copies the bytes behind
\* the count field and builds the reply
Tread_read(d, id, tag, offset, count, data) ==
    LET size == Len(data)
        count1 == IF offset + count > size THEN size - offset ELSE count
        d1 == [d EXCEPT !.replybuffer =
                WriteBytes(@, 7 + 4, [k \in 1..Max(count1, 0) |-> data[offset + k]])]
        d2 == [d1 EXCEPT !.replybuffer =
                WriteBytes(@, 7, Marshall(<<"w">>, <<count1>>))]
    IN  BuildReply(d2, id, tag, 4 + count1)

\* case P9_TREAD, up to fs.readFile(path), or to the reply when the tag's
\* scratch has data. The request's arg holds offset and count and, as
\* history, whether readFile was called and the data it gave
Tread(tag, fid, offset, count) ==
    /\ CanReceive(tag)
    /\ LET a == [offset |-> offset, count |-> count, readFile |-> FALSE,
                 data |-> <<>>]
       IN  IF fid \notin DOMAIN fids THEN Throw(P9_TREAD, tag, fid, a)
           ELSE LET d1 == addTag(Dev, tag)
                    scratch == d1.pendingTags[tag]
                IN  IF "data" \in DOMAIN scratch
                    THEN Arrive(Tread_read(d1, P9_TREAD, tag, offset, count,
                                           scratch["data"]),
                                NewRequest(P9_TREAD, tag, fid, a, fids[fid].path,
                                           "done", {}),
                                TRUE)
                    ELSE Arrive(d1,
                                NewRequest(P9_TREAD, tag, fid,
                                           [a EXCEPT !.readFile = TRUE],
                                           fids[fid].path, "wait", {"readFile"}),
                                FALSE)

\* case P9_TREAD, the callback of fs.readFile
TreadFile(i, err, data) ==
    /\ Waiting(i, P9_TREAD, "readFile")
    /\ LET tag == requests[i].tag
           a == requests[i].arg
       IN  IF shouldAbortRequest(Dev, tag) THEN Abort(i)
           ELSE IF err # NoErr THEN ReplyError(i, err)
           ELSE LET d1 == [Dev EXCEPT !.pendingTags[tag] =
                            [n \in DOMAIN @ \cup {"data"} |->
                                IF n = "data" THEN data ELSE @[n]]]
                    d2 == Tread_read(d1, P9_TREAD, tag, a.offset, a.count, data)
                IN  /\ Commit(d2)
                    /\ requests' = [requests EXCEPT ![i].pc = "done",
                                                    ![i].wait = {},
                                                    ![i].arg.data = <<data>>]
                    /\ sent' = Append(sent, [index |-> i, frame |-> Frame(d2)])
                    /\ UNCHANGED sessionAborted

\* what fs.readFile reports for a path: the root is a directory
ReadFileResults(path) ==
    IF path = "/" THEN {[err |-> "EISDIR", data |-> <<>>]}
    ELSE {[err |-> "ENOENT", data |-> <<>>]}
         \cup {[err |-> NoErr, data |-> c] : c \in FileContents}

\* the UTF-8 bytes of the names Treaddir marshals
UTF8 == [n \in {".", "..", "x", "yz"} |->
            CASE n = "." -> <<46>>
              [] n = ".." -> <<46, 46>>
              [] n = "x" -> <<120>>
              [] n = "yz" -> <<121, 122>>]
UTF8Length(name) == Len(UTF8[name])

\* what sh.ls may report for the root: a file "x" and a directory "yz", each
\* entry the node's stats and its name
WithName(stats, name) ==
    [f \in DOMAIN stats \cup {"name"} |-> IF f = "name" THEN name ELSE stats[f]]
Listings ==
    {<<WithName(CHOOSE s \in StatsSet : s.node = <<98, 99>>, "x"),
       WithName(CHOOSE s \in StatsSet : s.node = <<100>>, "yz")>>}
\* the offset and count fields of the Treaddir frames
ReaddirOffsets == {0, 60, 102, 110}
ReaddirCounts == {60}

RECURSIVE EntriesSize(_)
EntriesSize(entries) ==
    IF entries = <<>> THEN 0
    ELSE 13 + 8 + 1 + 2 + UTF8Length(Head(entries).name) + EntriesSize(Tail(entries))

\* Path.resolve("..", path): the rightmost absolute argument wins, and the
\* path of a fid is absolute
PathResolve(from, path) == path

\* ReaddirEntry storing in the offset field the offset of the entry itself
ReaddirEntry_OwnOffset(r, path, stats, name) ==
    LET bytes == Marshall(<<"Q", "d", "b", "s">>,
                          <<formatQid(path, stats),
                            r.dataOffset,
                            stats.mode \div 4096,
                            UTF8[name]>>)
    IN  [data |-> WriteBytes(r.data, r.dataOffset, bytes),
         dataOffset |-> r.dataOffset + Len(bytes)]

\* dataOffset += Marshall(["Q", "d", "b", "s"], [formatQid(path, stats),
\* dataOffset + 13+8+1+2 + length of name, stats.mode >> 12, name], data,
\* dataOffset), on the pair r of data and dataOffset
ReaddirEntry(r, path, stats, name) ==
    LET bytes == Marshall(<<"Q", "d", "b", "s">>,
                          <<formatQid(path, stats),
                            r.dataOffset + 13 + 8 + 1 + 2 + UTF8Length(name),
                            stats.mode \div 4096,
                            UTF8[name]>>)
    IN  [data |-> WriteBytes(r.data, r.dataOffset, bytes),
         dataOffset |-> r.dataOffset + Len(bytes)]

\* entries.forEach(...)
RECURSIVE ReaddirEntries(_, _, _)
ReaddirEntries(r, path, entries) ==
    IF entries = <<>> THEN r
    ELSE ReaddirEntries(ReaddirEntry(r, Join(path, Head(entries).name),
                                     Head(entries), Head(entries).name),
                        path, Tail(entries))

\* the bytes of a Uint8Array
BufferBytes(buf) == [k \in 1..buf.length |-> ByteAt(buf, k - 1)]

\* case P9_TREADDIR, up to sh.ls(path). The request's arg holds offset,
\* count, and once they exist entries, size, data and dataOffset; the stats
\* reported for "." and ".." are kept as history
Treaddir(tag, fid, offset, count) ==
    /\ CanReceive(tag)
    /\ LET a == [offset |-> offset, count |-> count, entries |-> <<>>,
                 size |-> 0, data |-> NewBuffer(0), dataOffset |-> 0,
                 stats |-> <<>>]
       IN  IF fid \notin DOMAIN fids THEN Throw(P9_TREADDIR, tag, fid, a)
           ELSE Arrive(addTag(Dev, tag),
                       NewRequest(P9_TREADDIR, tag, fid, a, fids[fid].path,
                                  "wait", {"ls"}),
                       FALSE)

\* case P9_TREADDIR, the callback of sh.ls, up to fs.stat(path)
TreaddirLs(i, err, entries) ==
    /\ Waiting(i, P9_TREADDIR, "ls")
    /\ LET tag == requests[i].tag
           size == EntriesSize(entries) + (13 + 8 + 1 + 2 + 1) + (13 + 8 + 1 + 2 + 2)
       IN  IF shouldAbortRequest(Dev, tag) THEN Abort(i)
           ELSE IF err # NoErr THEN ReplyError(i, err)
           ELSE /\ requests' = [requests EXCEPT ![i].wait = {"stat"},
                                                ![i].arg.entries = entries,
                                                ![i].arg.size = size,
                                                ![i].arg.data = NewBuffer(size)]
                /\ UNCHANGED <<fids, pendingTags, msize, replybuffer,
                               replybuffersize, sent, sessionAborted>>

\* case P9_TREADDIR, the callback of fs.stat(path), up to
\* fs.stat(parentDirPath)
TreaddirStat(i, err, stats) ==
    /\ Waiting(i, P9_TREADDIR, "stat")
    /\ LET tag == requests[i].tag
           a == requests[i].arg
           r == ReaddirEntry([data |-> a.data, dataOffset |-> 0],
                             requests[i].path, stats, ".")
       IN  IF shouldAbortRequest(Dev, tag) THEN Abort(i)
           ELSE IF err # NoErr THEN ReplyError(i, err)
           ELSE /\ requests' = [requests EXCEPT ![i].wait = {"statParent"},
                                                ![i].arg.data = r.data,
                                                ![i].arg.dataOffset = r.dataOffset,
                                                ![i].arg.stats = <<stats>>]
                /\ UNCHANGED <<fids, pendingTags, msize, replybuffer,
                               replybuffersize, sent, sessionAborted>>

\* case P9_TREADDIR, the callback of fs.stat(parentDirPath): the entries,
\* the slice and the reply
TreaddirStatParent(i, err, stats) ==
    /\ Waiting(i, P9_TREADDIR, "statParent")
    /\ LET tag == requests[i].tag
           a == requests[i].arg
           path == requests[i].path
           parentDirPath == PathResolve("..", path)
           r1 == ReaddirEntry([data |-> a.data, dataOffset |-> a.dataOffset],
                              parentDirPath, stats, "..")
           r2 == ReaddirEntries(r1, path, a.entries)
           count1 == IF a.size < a.offset + a.count THEN a.size - a.offset
                     ELSE a.count
           d1 == [Dev EXCEPT !.replybuffer =
                    WriteBytes(@, 7 + 4,
                               [k \in 1..Max(count1, 0) |->
                                    ByteAt(r2.data, a.offset + k - 1)])]
           d2 == [d1 EXCEPT !.replybuffer =
                    WriteBytes(@, 7, Marshall(<<"w">>, <<count1>>))]
           d3 == BuildReply(d2, P9_TREADDIR, tag, 4 + count1)
       IN  IF shouldAbortRequest(Dev, tag) THEN Abort(i)
           ELSE IF err # NoErr THEN ReplyError(i, err)
           ELSE /\ Commit(d3)
                /\ requests' = [requests EXCEPT ![i].pc = "done", ![i].wait = {},
                                                ![i].arg.data = r2.data,
                                                ![i].arg.dataOffset = r2.dataOffset,
                                                ![i].arg.stats = Append(@, stats)]
                /\ sent' = Append(sent, [index |-> i, frame |-> Frame(d3)])
                /\ UNCHANGED sessionAborted

\* case P9_TMKNOD, up to fs.mknod(filePath, 'FILE'); mode, major, minor and
\* gid are unmarshalled and not used. The request's arg holds, as history,
\* the backend calls made and the stats reported
Tmknod(tag, dfid, name) ==
    /\ CanReceive(tag)
    /\ IF dfid \notin DOMAIN fids
       THEN Throw(P9_TMKNOD, tag, dfid, [calls |-> <<>>, stats |-> <<>>])
       ELSE LET filePath == Join(fids[dfid].path, name)
            IN  Arrive(addTag(Dev, tag),
                       NewRequest(P9_TMKNOD, tag, dfid,
                                  [calls |-> <<[op |-> "mknod", path |-> filePath,
                                                type |-> "FILE"]>>,
                                   stats |-> <<>>],
                                  filePath, "wait", {"mknod"}),
                       FALSE)

\* case P9_TMKNOD, the callback of fs.mknod, up to fs.stat(filePath)
TmknodDone(i, err) ==
    /\ Waiting(i, P9_TMKNOD, "mknod")
    /\ IF shouldAbortRequest(Dev, requests[i].tag) THEN Abort(i)
       ELSE IF err # NoErr THEN ReplyError(i, err)
       ELSE /\ requests' = [requests EXCEPT
                               ![i].wait = {"stat"},
                               ![i].arg.calls =
                                   Append(@, [op |-> "stat", path |-> requests[i].path])]
            /\ UNCHANGED <<fids, pendingTags, msize, replybuffer,
                           replybuffersize, sent, sessionAborted>>

\* case P9_TMKNOD, the callback of fs.stat: it is a plain function that the
\* backend calls without a receiver, so this.replybuffer is not the device's
\* buffer and Marshall throws before BuildReply and SendReply are reached
TmknodStat(i, err, stats) ==
    /\ Waiting(i, P9_TMKNOD, "stat")
    /\ IF shouldAbortRequest(Dev, requests[i].tag) THEN Abort(i)
       ELSE IF err # NoErr THEN ReplyError(i, err)
       ELSE /\ requests' = [requests EXCEPT ![i].pc = "threw", ![i].wait = {},
                                            ![i].arg.stats = <<stats>>]
            /\ UNCHANGED <<fids, pendingTags, msize, replybuffer,
                           replybuffersize, sent, sessionAborted>>

\* case P9_TUNLINKAT, up to fs.stat(path). The request's arg holds, as
\* history, the removals called and the stats reported
Tunlinkat(tag, dirfd, name) ==
    /\ CanReceive(tag)
    /\ IF dirfd \notin DOMAIN fids
       THEN Throw(P9_TUNLINKAT, tag, dirfd, [removals |-> <<>>, stats |-> <<>>])
       ELSE Arrive(addTag(Dev, tag),
                   NewRequest(P9_TUNLINKAT, tag, dirfd,
                              [removals |-> <<>>, stats |-> <<>>],
                              Join(fids[dirfd].path, name), "wait", {"stat"}),
                   FALSE)

\* the removal chosen without looking at the node: unlink
UnlinkOp_AlwaysUnlink(stats) == "unlink"

\* var op = stats.type === 'DIRECTORY' ? 'rmdir' : 'unlink'
UnlinkOp(stats) == IF stats.type = "DIRECTORY" THEN "rmdir" ELSE "unlink"

\* case P9_TUNLINKAT, the callback of fs.stat, up to fs[op](path)
TunlinkatStat(i, err, stats) ==
    /\ Waiting(i, P9_TUNLINKAT, "stat")
    /\ IF shouldAbortRequest(Dev, requests[i].tag) THEN Abort(i)
       ELSE IF err # NoErr THEN ReplyError(i, err)
       ELSE /\ requests' = [requests EXCEPT
                               ![i].wait = {"remove"},
                               ![i].arg.stats = <<stats>>,
                               ![i].arg.removals =
                                   Append(@, [op |-> UnlinkOp(stats),
                                              path |-> requests[i].path])]
            /\ UNCHANGED <<fids, pendingTags, msize, replybuffer,
                           replybuffersize, sent, sessionAborted>>

\* case P9_TUNLINKAT, the callback of fs.rmdir or fs.unlink
TunlinkatRemove(i, err) ==
    /\ Waiting(i, P9_TUNLINKAT, "remove")
    /\ LET tag == requests[i].tag
       IN  IF shouldAbortRequest(Dev, tag) THEN Abort(i)
           ELSE IF err # NoErr THEN ReplyError(i, err)
           ELSE Reply(i, BuildReply(Dev, P9_TUNLINKAT, tag, 0))

\* Math.round(ms / 1000) of a time that is not negative
RoundSec(ms) == (ms + 500) \div 1000

\* case P9_TGETATTR, function statsToFileAttributes(stats)
statsToFileAttributes(path, stats) ==
    <<2047, formatQid(path, stats), stats.mode, stats.uid, stats.gid,
      stats.nlinks, 0, stats.size, BLOCKSIZE, stats.size \div 512 + 1,
      RoundSec(stats.atimeMs), stats.atimeMs * 1000000,
      RoundSec(stats.mtimeMs), stats.mtimeMs * 1000000,
      RoundSec(stats.ctimeMs), stats.ctimeMs * 1000000,
      0, 0, 0, 0>>

\* case P9_TGETATTR, up to fs.lstat(path); the request's arg is, as history,
\* the stats reported
Tgetattr(tag, fid) ==
    /\ CanReceive(tag)
    /\ IF fid \notin DOMAIN fids THEN Throw(P9_TGETATTR, tag, fid, <<>>)
       ELSE Arrive(addTag(Dev, tag),
                   NewRequest(P9_TGETATTR, tag, fid, <<>>, fids[fid].path,
                              "wait", {"lstat"}),
                   FALSE)

\* case P9_TGETATTR, the callback of fs.lstat(path)
TgetattrStat(i, err, stats) ==
    /\ Waiting(i, P9_TGETATTR, "lstat")
    /\ LET tag == requests[i].tag
       IN  IF shouldAbortRequest(Dev, tag) THEN Abort(i)
           ELSE IF err # NoErr THEN ReplyError(i, err)
           ELSE LET p9Stats == statsToFileAttributes(requests[i].path, stats)
                    d1 == [Dev EXCEPT !.replybuffer =
                            WriteBytes(@, 7,
                                Marshall(<<"d", "Q", "w", "w", "w", "d", "d",
                                           "d", "d", "d", "d", "d", "d", "d",
                                           "d", "d", "d", "d", "d", "d">>,
                                         p9Stats))]
                    d2 == BuildReply(d1, P9_TGETATTR, tag,
                                     8 + 13 + 4 + 4 + 4 + 8 * 15)
                IN  /\ Commit(d2)
                    /\ requests' = [requests EXCEPT ![i].pc = "done",
                                                    ![i].wait = {},
                                                    ![i].arg = <<stats>>]
                    /\ sent' = Append(sent, [index |-> i, frame |-> Frame(d2)])
                    /\ UNCHANGED sessionAborted

\* JSON.stringify leaving out the properties of value 0 as well
JSONstringify_DropsFalsy(obj) ==
    [f \in DOMAIN obj |->
        [k \in {n \in DOMAIN obj[f] :
                    n = "path" \/ obj[f][n] \notin {Undefined, 0}} |->
            obj[f][k]]]

\* JSON.stringify of the fid table, as the JSON value its text denotes: a
\* property whose value is undefined is left out (path is always a string)
JSONstringify(obj) ==
    [f \in DOMAIN obj |->
        [k \in {n \in DOMAIN obj[f] : n = "path" \/ obj[f][n] # Undefined} |->
            obj[f][k]]]

\* JSON.parse: the object of a JSON value
JSONparse(text) == [f \in DOMAIN text |-> [k \in DOMAIN text[f] |-> text[f][k]]]

\* Virtio9p.prototype.get_state
get_state(d) ==
    <<deviceid, hostfeature, configspace, VERSION, BLOCKSIZE, d.msize,
      d.replybuffer, d.replybuffersize, JSONstringify(d.fids)>>

\* Virtio9p.prototype.set_state: state[0] is state[1] here
set_state(d, state) ==
    [deviceid |-> state[1], hostfeature |-> state[2], configspace |-> state[3],
     VERSION |-> state[4], BLOCKSIZE |-> state[5], msize |-> state[6],
     replybuffer |-> state[7], replybuffersize |-> state[8],
     fids |-> JSONparse(state[9]), pendingTags |-> d.pendingTags]

\* the emulator saves the device state and restores it at once
SaveRestore ==
    /\ Commit(set_state(Dev, get_state(Dev)))
    /\ UNCHANGED <<requests, sent, sessionAborted>>

\* the count field of the Twrite frames
WriteCounts == {2}

\* case P9_TWRITE, up to fs.open(path, 'w'). The request's arg holds, as
\* history, whether the open gave an fd, how often fs.close was called and
\* the nbytes fs.write reported
Twrite(tag, fid, offset, count) ==
    /\ CanReceive(tag)
    /\ IF fid \notin DOMAIN fids
       THEN Throw(P9_TWRITE, tag, fid,
                  [offset |-> offset, count |-> count, opened |-> FALSE,
                   closes |-> 0, nbytes |-> <<>>])
       ELSE Arrive(addTag(Dev, tag),
                   NewRequest(P9_TWRITE, tag, fid,
                              [offset |-> offset, count |-> count,
                               opened |-> FALSE, closes |-> 0, nbytes |-> <<>>],
                              fids[fid].path, "wait", {"open"}),
                   FALSE)

\* case P9_TWRITE, the callback of fs.open: with no error it has an fd, takes
\* count bytes from the frame and calls fs.write
TwriteOpen(i, err) ==
    /\ Waiting(i, P9_TWRITE, "open")
    /\ LET tag == requests[i].tag
       IN  IF shouldAbortRequest(Dev, tag) THEN AbortClosing(i, err = NoErr)
           ELSE IF err # NoErr THEN ReplyError(i, err)
           ELSE /\ requests' = [requests EXCEPT ![i].wait = {"write"},
                                                ![i].arg.opened = TRUE]
                /\ UNCHANGED <<fids, pendingTags, msize, replybuffer,
                               replybuffersize, sent, sessionAborted>>

\* case P9_TWRITE, the callback of fs.write
TwriteDone(i, err, nbytes) ==
    /\ Waiting(i, P9_TWRITE, "write")
    /\ LET tag == requests[i].tag
       IN  IF shouldAbortRequest(Dev, tag) THEN AbortClosing(i, TRUE)
           ELSE IF err # NoErr THEN ReplyError(i, err)
           ELSE LET d1 == [Dev EXCEPT !.replybuffer =
                            WriteBytes(@, 7, Marshall(<<"w">>, <<nbytes>>))]
                    d2 == BuildReply(d1, P9_TWRITE, tag, 4)
                IN  /\ Commit(d2)
                    /\ requests' = [requests EXCEPT ![i].pc = "done",
                                                    ![i].wait = {},
                                                    ![i].arg.closes = @ + 1,
                                                    ![i].arg.nbytes = <<nbytes>>]
                    /\ sent' = Append(sent, [index |-> i, frame |-> Frame(d2)])
                    /\ UNCHANGED sessionAborted

\* a handler that called no backend function when it threw or replied
NoCalls == [calls |-> <<>>]

\* case P9_TSTATFS. this.fs.inodes is a field of the backend: inodes is its
\* length, or Undefined when the backend has no such field and reading its
\* length throws
Tstatfs(tag, inodes) ==
    /\ CanReceive(tag)
    /\ IF inodes = Undefined
       THEN Arrive(addTag(Dev, tag),
                   NewRequest(P9_TSTATFS, tag, 0, NoCalls, "", "threw", {}), FALSE)
       ELSE LET total_size == 50 * 1024
                f_bsize == BLOCKSIZE
                \* Math.floor(256 * 1024 * 1024 * 1024 / f_bsize)
                f_blocks == (256 * 1024 * 1024) \div (f_bsize \div 1024)
                f_bfree == f_blocks - (total_size \div f_bsize)
                statfs == <<V9FS_MAGIC, f_bsize, f_blocks, f_bfree, f_bfree,
                            inodes, 1024 * 1024, 0, 256>>
                bytes == Marshall(<<"w", "w", "d", "d", "d", "d", "d", "d", "w">>,
                                  statfs)
                d == [addTag(Dev, tag) EXCEPT !.replybuffer = WriteBytes(@, 7, bytes)]
            IN  Arrive(BuildReply(d, P9_TSTATFS, tag, Len(bytes)),
                       NewRequest(P9_TSTATFS, tag, 0, NoCalls, "", "done", {}), TRUE)

\* request i's callback returns on shouldAbortRequest, answers an error with
\* SendError, and else builds and sends a reply with an empty body
CallbackReplyEmpty(i, err) ==
    IF shouldAbortRequest(Dev, requests[i].tag) THEN Abort(i)
    ELSE IF err # NoErr THEN ReplyError(i, err)
    ELSE Reply(i, BuildReply(Dev, requests[i].id, requests[i].tag, 0))

\* request i's callback returns on shouldAbortRequest, answers an error with
\* SendError, and else calls fs.stat(path)
CallbackThenStat(i, err) ==
    IF shouldAbortRequest(Dev, requests[i].tag) THEN Abort(i)
    ELSE IF err # NoErr THEN ReplyError(i, err)
    ELSE /\ requests' = [requests EXCEPT
                            ![i].wait = {"stat"},
                            ![i].arg.calls =
                                Append(@, [op |-> "stat", path |-> requests[i].path])]
         /\ UNCHANGED <<fids, pendingTags, msize, replybuffer,
                        replybuffersize, sent, sessionAborted>>

\* request i's callback of fs.stat(path) returns on shouldAbortRequest,
\* answers an error with SendError, and else replies with the QID
CallbackReplyQid(i, err, stats) ==
    IF shouldAbortRequest(Dev, requests[i].tag) THEN Abort(i)
    ELSE IF err # NoErr THEN ReplyError(i, err)
    ELSE LET qid == formatQid(requests[i].path, stats)
             d == [Dev EXCEPT !.replybuffer =
                        WriteBytes(@, 7, Marshall(<<"Q">>, <<qid>>))]
         IN  Reply(i, BuildReply(d, requests[i].id, requests[i].tag, 13))

\* case P9_TLINK, up to fs.link(existingPath, newPath)
Tlink(tag, dfid, fid, name) ==
    /\ CanReceive(tag)
    /\ IF dfid \notin DOMAIN fids \/ fid \notin DOMAIN fids
       THEN Throw(P9_TLINK, tag, fid, NoCalls)
       ELSE LET newPath == Join(fids[dfid].path, name)
            IN  Arrive(addTag(Dev, tag),
                       NewRequest(P9_TLINK, tag, fid,
                                  [calls |-> <<[op |-> "link", path |-> newPath,
                                                existing |-> fids[fid].path]>>],
                                  newPath, "wait", {"link"}),
                       FALSE)

\* case P9_TLINK, the callback of fs.link
TlinkDone(i, err) ==
    /\ Waiting(i, P9_TLINK, "link")
    /\ CallbackReplyEmpty(i, err)

\* case P9_TSYMLINK, up to fs.symlink(symtgt, newPath)
Tsymlink(tag, dfid, name, symtgt) ==
    /\ CanReceive(tag)
    /\ IF dfid \notin DOMAIN fids THEN Throw(P9_TSYMLINK, tag, dfid, NoCalls)
       ELSE LET newPath == Join(fids[dfid].path, name)
            IN  Arrive(addTag(Dev, tag),
                       NewRequest(P9_TSYMLINK, tag, dfid,
                                  [calls |-> <<[op |-> "symlink", path |-> newPath,
                                                symtgt |-> symtgt]>>],
                                  newPath, "wait", {"symlink"}),
                       FALSE)

\* case P9_TSYMLINK, the callback of fs.symlink
TsymlinkDone(i, err) ==
    /\ Waiting(i, P9_TSYMLINK, "symlink")
    /\ CallbackThenStat(i, err)

\* case P9_TSYMLINK, the callback of fs.stat(newPath)
TsymlinkStat(i, err, stats) ==
    /\ Waiting(i, P9_TSYMLINK, "stat")
    /\ CallbackReplyQid(i, err, stats)

\* case P9_TMKDIR, up to fs.mkdir(newDir, mode)
Tmkdir(tag, dfid, name) ==
    /\ CanReceive(tag)
    /\ IF dfid \notin DOMAIN fids THEN Throw(P9_TMKDIR, tag, dfid, NoCalls)
       ELSE LET newDir == Join(fids[dfid].path, name)
            IN  Arrive(addTag(Dev, tag),
                       NewRequest(P9_TMKDIR, tag, dfid,
                                  [calls |-> <<[op |-> "mkdir", path |-> newDir]>>],
                                  newDir, "wait", {"mkdir"}),
                       FALSE)

\* case P9_TMKDIR, the callback of fs.mkdir
TmkdirDone(i, err) ==
    /\ Waiting(i, P9_TMKDIR, "mkdir")
    /\ CallbackThenStat(i, err)

\* case P9_TMKDIR, the callback of fs.stat(newDir)
TmkdirStat(i, err, stats) ==
    /\ Waiting(i, P9_TMKDIR, "stat")
    /\ CallbackReplyQid(i, err, stats)

\* case P9_TLOCK: Marshall(["w"], [0]) at offset 7 and a payload of 1 byte
Tlock(tag) ==
    /\ CanReceive(tag)
    /\ LET d == [addTag(Dev, tag) EXCEPT !.replybuffer =
                    WriteBytes(@, 7, Marshall(<<"w">>, <<0>>))]
       IN  Arrive(BuildReply(d, P9_TLOCK, tag, 1),
                  NewRequest(P9_TLOCK, tag, 0, NoCalls, "", "done", {}), TRUE)

\* case P9_TFSYNC: the fid is unmarshalled and not looked up
Tfsync(tag, fid) ==
    /\ CanReceive(tag)
    /\ Arrive(BuildReply(addTag(Dev, tag), P9_TFSYNC, tag, 0),
              NewRequest(P9_TFSYNC, tag, fid, NoCalls, "", "done", {}), TRUE)

\* case P9_TRENAMEAT, up to fs.rename(oldPath, newPath)
Trenameat(tag, olddirfid, oldname, newdirfid, newname) ==
    /\ CanReceive(tag)
    /\ IF olddirfid \notin DOMAIN fids \/ newdirfid \notin DOMAIN fids
       THEN Throw(P9_TRENAMEAT, tag, olddirfid, NoCalls)
       ELSE LET oldPath == Join(fids[olddirfid].path, oldname)
                newPath == Join(fids[newdirfid].path, newname)
            IN  Arrive(addTag(Dev, tag),
                       NewRequest(P9_TRENAMEAT, tag, olddirfid,
                                  [calls |-> <<[op |-> "rename", path |-> newPath,
                                                existing |-> oldPath]>>],
                                  oldPath, "wait", {"rename"}),
                       FALSE)

\* the callback of fs.rename moving olddirfid to the new path
TrenameatDone_RebindsFid(i, err) ==
    /\ Waiting(i, P9_TRENAMEAT, "rename")
    /\ IF shouldAbortRequest(Dev, requests[i].tag) THEN Abort(i)
       ELSE IF err # NoErr THEN ReplyError(i, err)
       ELSE Reply(i, BuildReply([Dev EXCEPT !.fids[requests[i].fid].path =
                                                requests[i].arg.calls[1].path],
                                requests[i].id, requests[i].tag, 0))

\* case P9_TRENAMEAT, the callback of fs.rename
TrenameatDone(i, err) ==
    /\ Waiting(i, P9_TRENAMEAT, "rename")
    /\ CallbackReplyEmpty(i, err)

\* case P9_TXATTRCREATE: the fid is unmarshalled and not looked up
Txattrcreate(tag, fid) ==
    /\ CanReceive(tag)
    /\ Arrive(BuildReply(addTag(Dev, tag), P9_TXATTRCREATE, tag, 0),
              NewRequest(P9_TXATTRCREATE, tag, fid, NoCalls, "", "done", {}), TRUE)

\* the inodeid of a fid record, a property Createfid never sets
NoInodeid == "undefined"

\* case P9_TXATTRWALK. For the name "security.capability" it calls
\* this.fs.PrepareCAPs, a backend function: caps is the length it returns, or
\* Undefined when the backend has no such function and the call throws
Txattrwalk(tag, fid, newfid, name, caps) ==
    /\ CanReceive(tag)
    /\ IF fid \notin DOMAIN fids THEN Throw(P9_TXATTRWALK, tag, fid, NoCalls)
       ELSE LET d1 == [addTag(Dev, tag) EXCEPT !.fids =
                        [f \in DOMAIN @ \cup {newfid} |->
                            IF f = newfid
                            THEN Createfid(NoInodeid, FID_NONE, Prop(fids[fid], "uid"))
                            ELSE @[f]]]
                req == NewRequest(P9_TXATTRWALK, tag, fid,
                                  [calls |-> <<>>, newfid |-> newfid],
                                  fids[fid].path, "done", {})
            IN  IF name = "security.capability" /\ caps = Undefined
                THEN Arrive(d1, [req EXCEPT !.pc = "threw"], FALSE)
                ELSE LET length == IF name = "security.capability" THEN caps ELSE 0
                         d2 == IF name = "security.capability"
                               THEN [d1 EXCEPT !.fids[newfid].type = FID_XATTR]
                               ELSE d1
                         d3 == [d2 EXCEPT !.replybuffer =
                                    WriteBytes(@, 7, Marshall(<<"d">>, <<length>>))]
                     IN  Arrive(BuildReply(d3, P9_TXATTRWALK, tag, 8), req, TRUE)

\* message.Abort(): the session is over for the transport
MessageAbort == sessionAborted' = TRUE

\* the default case answering with an error reply (the lines it has
\* commented out) instead of aborting
Tunknown_SendsError(tag, id) ==
    /\ CanReceive(tag)
    /\ Arrive(SendError(addTag(Dev, tag), tag, "EINVAL"),
              NewRequest(id, tag, 0, 0, "", "done", {}), TRUE)

\* the default case: message.Abort()
Tunknown(tag, id) ==
    /\ CanReceive(tag)
    /\ Commit(addTag(Dev, tag))
    /\ requests' = Append(requests,
                          NewRequest(id, tag, 0, 0, "", "sessionabort", {}))
    /\ MessageAbort
    /\ UNCHANGED sent

Next ==
    /\ \/ \E tag \in Tags, fid \in Fids, uid \in Uids : Tattach(tag, fid, NOFID, uid)
       \/ \E i \in 1..Len(requests), err \in Outcomes, stats \in StatsOf("/") :
               TattachStat(i, err, stats)
       \/ \E tag \in Tags, fid \in Fids : Tlopen(tag, fid)
       \/ \E i \in 1..Len(requests), err \in Outcomes :
               \E stats \in StatsOf(requests[i].path) : TlopenStat(i, err, stats)
       \/ \E tag \in Tags, fid \in Fids, valid \in SetattrMasks, sec \in SetattrSecs :
               Tsetattr(tag, fid, valid, sec, sec)
       \/ \E i \in 1..Len(requests), err \in Outcomes,
             call \in {"chmod", "chown", "utimes", "truncate"} :
               TsetattrCall(i, call, err)
       \/ \E tag \in Tags, oldtag \in Tags : Tflush(tag, oldtag)
       \/ \E tag \in Tags, fid \in Fids : Tclunk(tag, fid)
       \/ \E tag \in Tags, id \in UnknownIds : Tunknown(tag, id)
    /\ Len(requests') <= MaxRequests
    /\ UNCHANGED storageVars

Spec == Init /\ [][Next]_vars

\* the same dispatcher with the backend's stat failing with any kind of the
\* errno table, or with a kind the table does not have
ErrKinds == DOMAIN POSIX_ERR_CODE_MAP \cup {"ENOSPC"}

NextSendError ==
    /\ \/ \E tag \in Tags, uid \in Uids : Tattach(tag, 0, NOFID, uid)
       \/ \E i \in 1..Len(requests), err \in {NoErr} \cup ErrKinds,
             stats \in StatsOf("/") :
               TattachStat(i, err, stats)
    /\ Len(requests') <= MaxErrorRequests
    /\ UNCHANGED storageVars

SpecSendError == Init /\ [][NextSendError]_vars

\* sessions of at most MaxSessionRequests frames in which the client also
\* sends Tversion, and Tattach frames that are cut short
NextSession ==
    /\ \/ Next
       \/ \E tag \in Tags, m \in Msizes : Tversion(tag, m)
       \/ \E tag \in Tags, throws \in BOOLEAN, fid \in Fids, uid \in Uids :
               TattachShort(tag, throws, fid, uid)
    /\ Len(requests') <= MaxSessionRequests
    /\ UNCHANGED storageVars

SpecSession == Init /\ [][NextSession]_vars

\* sessions of at most MaxReadlinkRequests frames in which the client
\* attaches and reads the targets of symlinks
NextReadlink ==
    /\ \/ \E tag \in Tags, uid \in Uids : Tattach(tag, 0, NOFID, uid)
       \/ \E i \in 1..Len(requests), err \in Outcomes, stats \in StatsOf("/") :
               TattachStat(i, err, stats)
       \/ \E tag \in Tags, fid \in Fids : Treadlink(tag, fid)
       \/ \E i \in 1..Len(requests), err \in Outcomes, contents \in LinkTargets :
               TreadlinkDone(i, err, contents)
    /\ Len(requests') <= MaxReadlinkRequests
    /\ UNCHANGED storageVars

SpecReadlink == Init /\ [][NextReadlink]_vars

\* sessions of at most MaxWalkRequests frames in which the client attaches,
\* with any afid, and walks
Afids == {NOFID, [hi |-> 0, lo |-> 0]}

NextWalk ==
    /\ \/ \E tag \in Tags, afid \in Afids, uid \in Uids :
               Tattach(tag, 0, afid, uid)
       \/ \E i \in 1..Len(requests), stats \in StatsOf("/") :
               TattachStat(i, NoErr, stats)
       \/ \E tag \in Tags, fid \in Fids, nwfid \in Fids, wnames \in Walks :
               Twalk(tag, fid, nwfid, wnames)
       \/ \E i \in 1..Len(requests) :
               /\ requests[i].id = P9_TWALK
               /\ \E r \in WalkStatResults(i) : TwalkStat(i, r.err, r.stats)
    /\ Len(requests') <= MaxWalkRequests
    /\ UNCHANGED storageVars

SpecWalk == Init /\ [][NextWalk]_vars

\* sessions of at most MaxCreateRequests frames in which the client
\* attaches, creates files and flushes
NextCreate ==
    /\ \/ \E tag \in Tags, uid \in Uids : Tattach(tag, 0, NOFID, uid)
       \/ \E i \in 1..Len(requests) : TattachStat(i, NoErr, RootStats)
       \/ \E tag \in Tags, fid \in Fids, name \in FileNames : Tlcreate(tag, fid, name)
       \/ \E i \in 1..Len(requests), err \in {NoErr, "EEXIST"} : TlcreateOpen(i, err)
       \/ \E i \in 1..Len(requests), err \in {NoErr, "EIO"}, stats \in FileStats :
               TlcreateFstat(i, err, stats)
       \/ \E tag \in Tags, oldtag \in Tags : Tflush(tag, oldtag)
    /\ Len(requests') <= MaxCreateRequests
    /\ UNCHANGED storageVars

SpecCreate == Init /\ [][NextCreate]_vars

\* sessions of at most MaxReadRequests frames in which the client
\* attaches, walks fid 1 to the file "/a" and reads
NextRead ==
    /\ \/ \E tag \in Tags, uid \in Uids : Tattach(tag, 0, NOFID, uid)
       \/ \E i \in 1..Len(requests) : TattachStat(i, NoErr, RootStats)
       \/ \E tag \in Tags : Twalk(tag, 0, 1, <<"a">>)
       \/ \E i \in 1..Len(requests), stats \in FileStats : TwalkStat(i, NoErr, stats)
       \/ \E tag \in Tags, fid \in Fids, offset \in ReadOffsets, count \in ReadCounts :
               Tread(tag, fid, offset, count)
       \/ \E i \in 1..Len(requests) :
               \E r \in ReadFileResults(requests[i].path) : TreadFile(i, r.err, r.data)
    /\ Len(requests') <= MaxReadRequests
    /\ UNCHANGED storageVars

SpecRead == Init /\ [][NextRead]_vars

\* sessions of at most MaxReaddirRequests frames in which the client
\* attaches and reads the root directory
NextReaddir ==
    /\ \/ \E tag \in Tags, uid \in Uids : Tattach(tag, 0, NOFID, uid)
       \/ \E i \in 1..Len(requests) : TattachStat(i, NoErr, RootStats)
       \/ \E tag \in Tags, fid \in Fids, offset \in ReaddirOffsets,
             count \in ReaddirCounts : Treaddir(tag, fid, offset, count)
       \/ \E i \in 1..Len(requests), entries \in Listings : TreaddirLs(i, NoErr, entries)
       \/ \E i \in 1..Len(requests) : TreaddirLs(i, "ENOENT", <<>>)
       \/ \E i \in 1..Len(requests), err \in {NoErr, "ENOENT"} :
               \E stats \in StatsOf(requests[i].path) : TreaddirStat(i, err, stats)
       \/ \E i \in 1..Len(requests), err \in {NoErr, "ENOENT"} :
               \E stats \in StatsOf(PathResolve("..", requests[i].path)) :
                   TreaddirStatParent(i, err, stats)
    /\ Len(requests') <= MaxReaddirRequests
    /\ UNCHANGED storageVars

SpecReaddir == Init /\ [][NextReaddir]_vars

\* sessions of at most MaxSetattrRequests frames in which the client
\* attaches and sets attributes of the root
NextSetattr ==
    /\ \/ \E tag \in Tags, uid \in Uids : Tattach(tag, 0, NOFID, uid)
       \/ \E i \in 1..Len(requests) : TattachStat(i, NoErr, RootStats)
       \/ \E tag \in Tags, valid \in SetattrGroupMasks, sec \in SetattrGroupSecs :
               Tsetattr(tag, 0, valid, sec, sec)
       \/ \E i \in 1..Len(requests), err \in {NoErr, "EPERM", "EIO"},
             call \in {"chmod", "chown", "utimes", "truncate"} :
               TsetattrCall(i, call, err)
    /\ Len(requests') <= MaxSetattrRequests
    /\ UNCHANGED storageVars

SpecSetattr == Init /\ [][NextSetattr]_vars

\* sessions of at most MaxNodeRequests frames in which the client attaches,
\* makes nodes in the root, unlinks them and flushes
NextNodes ==
    /\ \/ \E tag \in Tags, uid \in Uids : Tattach(tag, 0, NOFID, uid)
       \/ \E i \in 1..Len(requests) : TattachStat(i, NoErr, RootStats)
       \/ \E tag \in Tags, dfid \in Fids, name \in FileNames : Tmknod(tag, dfid, name)
       \/ \E i \in 1..Len(requests), err \in {NoErr, "EEXIST"} : TmknodDone(i, err)
       \/ \E i \in 1..Len(requests), err \in {NoErr, "ENOENT"}, stats \in FileStats :
               TmknodStat(i, err, stats)
       \/ \E tag \in Tags, dirfd \in Fids, name \in FileNames :
               Tunlinkat(tag, dirfd, name)
       \/ \E i \in 1..Len(requests), err \in {NoErr, "ENOENT"} :
               \E stats \in StatsOf(requests[i].path) : TunlinkatStat(i, err, stats)
       \/ \E i \in 1..Len(requests), err \in {NoErr, "ENOTEMPTY"} :
               TunlinkatRemove(i, err)
       \/ \E tag \in Tags, oldtag \in Tags : Tflush(tag, oldtag)
    /\ Len(requests') <= MaxNodeRequests
    /\ UNCHANGED storageVars

SpecNodes == Init /\ [][NextNodes]_vars

\* sessions of at most MaxQidRequests frames in which the client attaches,
\* walks fid 1 to "/a" or "/a/b", and opens, stats and lists what its fids
\* name; the backend may report one node under several paths
NextQid ==
    /\ \/ \E tag \in Tags, uid \in Uids : Tattach(tag, 0, NOFID, uid)
       \/ \E i \in 1..Len(requests) : TattachStat(i, NoErr, RootStats)
       \/ \E tag \in Tags, wnames \in Walks \ {<<>>} : Twalk(tag, 0, 1, wnames)
       \/ \E i \in 1..Len(requests) :
               /\ requests[i].id = P9_TWALK
               /\ \E r \in WalkStatResults(i) : TwalkStat(i, r.err, r.stats)
       \/ \E tag \in Tags, fid \in Fids : Tlopen(tag, fid)
       \/ \E i \in 1..Len(requests) :
               \E stats \in StatsOf(requests[i].path) : TlopenStat(i, NoErr, stats)
       \/ \E tag \in Tags, fid \in Fids : Tgetattr(tag, fid)
       \/ \E i \in 1..Len(requests), err \in {NoErr, "ENOENT"} :
               \E stats \in StatsOf(requests[i].path) : TgetattrStat(i, err, stats)
       \/ \E tag \in Tags, count \in ReaddirCounts : Treaddir(tag, 0, 0, count)
       \/ \E i \in 1..Len(requests), entries \in Listings : TreaddirLs(i, NoErr, entries)
       \/ \E i \in 1..Len(requests) :
               \E stats \in StatsOf(requests[i].path) : TreaddirStat(i, NoErr, stats)
       \/ \E i \in 1..Len(requests) :
               \E stats \in StatsOf(PathResolve("..", requests[i].path)) :
                   TreaddirStatParent(i, NoErr, stats)
    /\ Len(requests') <= MaxQidRequests
    /\ UNCHANGED storageVars

SpecQid == Init /\ [][NextQid]_vars

\* sessions of at most MaxStateRequests frames in which the client
\* negotiates, attaches as root or as a user, creates files and clones fids,
\* and the device state is saved and restored at any moment
NextState ==
    /\ \/ \E tag \in Tags, uid \in {0} \cup Uids : Tattach(tag, 0, NOFID, uid)
       \/ \E i \in 1..Len(requests) : TattachStat(i, NoErr, RootStats)
       \/ \E tag \in Tags, m \in Msizes : Tversion(tag, m)
       \/ \E tag \in Tags, fid \in Fids, name \in FileNames : Tlcreate(tag, fid, name)
       \/ \E i \in 1..Len(requests) : TlcreateOpen(i, NoErr)
       \/ \E i \in 1..Len(requests), stats \in FileStats : TlcreateFstat(i, NoErr, stats)
       \/ \E tag \in Tags, fid \in Fids, nwfid \in Fids : Twalk(tag, fid, nwfid, <<>>)
       \/ SaveRestore
    /\ Len(requests') <= MaxStateRequests
    /\ UNCHANGED storageVars

SpecState == Init /\ [][NextState]_vars

\* sessions of at most MaxFdRequests frames in which the client attaches,
\* creates a file, writes to what its fid names and flushes
NextFds ==
    /\ \/ \E uid \in Uids : Tattach(1, 0, NOFID, uid)
       \/ \E i \in 1..Len(requests) : TattachStat(i, NoErr, RootStats)
       \/ \E tag \in Tags, name \in FileNames : Tlcreate(tag, 0, name)
       \/ \E i \in 1..Len(requests), err \in {NoErr, "EEXIST"} : TlcreateOpen(i, err)
       \/ \E i \in 1..Len(requests), err \in {NoErr, "EIO"}, stats \in FileStats :
               TlcreateFstat(i, err, stats)
       \/ \E tag \in Tags, fid \in Fids, count \in WriteCounts : Twrite(tag, fid, 0, count)
       \/ \E i \in 1..Len(requests), err \in {NoErr, "EISDIR"} : TwriteOpen(i, err)
       \/ \E i \in 1..Len(requests) :
               \/ TwriteDone(i, NoErr, requests[i].arg.count)
               \/ TwriteDone(i, "EIO", 0)
       \/ \E tag \in Tags, oldtag \in Tags : Tflush(tag, oldtag)
    /\ Len(requests') <= MaxFdRequests
    /\ UNCHANGED storageVars

SpecFds == Init /\ [][NextFds]_vars

\* sessions of at most MaxFlushRequests frames in which the client attaches,
\* creates files, walks one or two components and flushes
NextFlush ==
    /\ \/ \E uid \in Uids : Tattach(1, 0, NOFID, uid)
       \/ \E i \in 1..Len(requests) : TattachStat(i, NoErr, RootStats)
       \/ \E tag \in Tags, name \in FileNames : Tlcreate(tag, 0, name)
       \/ \E i \in 1..Len(requests) : TlcreateOpen(i, NoErr)
       \/ \E i \in 1..Len(requests), stats \in FileStats : TlcreateFstat(i, NoErr, stats)
       \/ \E tag \in Tags, wnames \in {<<"a">>, <<"a", "b">>} : Twalk(tag, 0, 1, wnames)
       \/ \E i \in 1..Len(requests) :
               /\ requests[i].id = P9_TWALK
               /\ \E r \in WalkStatResults(i) : TwalkStat(i, r.err, r.stats)
       \/ \E tag \in Tags, oldtag \in Tags : Tflush(tag, oldtag)
    /\ Len(requests') <= MaxFlushRequests
    /\ UNCHANGED storageVars

SpecFlush == Init /\ [][NextFlush]_vars

\* the stats a backend call reports for the path of request i in SpecFids
FidsStats(i) == IF requests[i].path = "/" THEN {RootStats} ELSE FileStats

\* the tag the client gives its next frame, while it has frames left to
\* send: the lowest one that is free
FreeTags ==
    IF Len(requests) >= MaxFidsRequests THEN {}
    ELSE {t \in Tags : TagFree(t) /\ \A u \in Tags : TagFree(u) => t <= u}

\* sessions of at most MaxFidsRequests frames of every request type the
\* switch of ReceiveRequest has a case for, each backend call succeeding or
\* failing
NextFids ==
    /\ \/ \E tag \in FreeTags, uid \in Uids : Tattach(tag, 0, NOFID, uid)
       \/ \E i \in 1..Len(requests), err \in {NoErr, "EIO"} :
               TattachStat(i, err, RootStats)
       \/ \E tag \in FreeTags, wnames \in {<<>>, <<"a">>} : Twalk(tag, 0, 1, wnames)
       \/ \E i \in 1..Len(requests) :
               /\ requests[i].id = P9_TWALK
               /\ \E r \in WalkStatResults(i) : TwalkStat(i, r.err, r.stats)
       \/ \E tag \in FreeTags, name \in FileNames : Tlcreate(tag, 0, name)
       \/ \E i \in 1..Len(requests), err \in {NoErr, "EEXIST"} : TlcreateOpen(i, err)
       \/ \E i \in 1..Len(requests), err \in {NoErr, "EIO"}, stats \in FileStats :
               TlcreateFstat(i, err, stats)
       \/ \E tag \in FreeTags, name \in {"user.x", "security.capability"},
             caps \in {Undefined, 0} : Txattrwalk(tag, 0, 1, name, caps)
       \/ \E tag \in FreeTags, fid \in Fids : Tclunk(tag, fid)
       \/ \E tag \in FreeTags : Tversion(tag, InitMsize)
       \/ \E tag \in FreeTags, oldtag \in Tags : Tflush(tag, oldtag)
       \/ \E tag \in FreeTags : Tlopen(tag, 0)
       \/ \E i \in 1..Len(requests), err \in {NoErr, "EIO"} : \E stats \in FidsStats(i) :
               TlopenStat(i, err, stats)
       \/ \E tag \in FreeTags : Tgetattr(tag, 0)
       \/ \E i \in 1..Len(requests), err \in {NoErr, "EIO"} : \E stats \in FidsStats(i) :
               TgetattrStat(i, err, stats)
       \/ \E tag \in FreeTags, valid \in {P9_SETATTR_MODE, P9_SETATTR_SIZE} :
               Tsetattr(tag, 0, valid, 5, 5)
       \/ \E i \in 1..Len(requests), err \in {NoErr, "EIO"},
             call \in {"chmod", "truncate"} : TsetattrCall(i, call, err)
       \/ \E tag \in FreeTags, count \in ReadCounts : Tread(tag, 0, 0, count)
       \/ \E i \in 1..Len(requests) :
               \E r \in ReadFileResults(requests[i].path) : TreadFile(i, r.err, r.data)
       \/ \E tag \in FreeTags, count \in WriteCounts : Twrite(tag, 0, 0, count)
       \/ \E i \in 1..Len(requests), err \in {NoErr, "EISDIR"} : TwriteOpen(i, err)
       \/ \E i \in 1..Len(requests) :
               \/ TwriteDone(i, NoErr, requests[i].arg.count)
               \/ TwriteDone(i, "EIO", 0)
       \/ \E tag \in FreeTags, count \in ReaddirCounts : Treaddir(tag, 0, 0, count)
       \/ \E i \in 1..Len(requests), err \in {NoErr, "ENOENT"} : TreaddirLs(i, err, <<>>)
       \/ \E i \in 1..Len(requests), err \in {NoErr, "EIO"} : \E stats \in FidsStats(i) :
               TreaddirStat(i, err, stats)
       \/ \E i \in 1..Len(requests), err \in {NoErr, "EIO"} :
               TreaddirStatParent(i, err, RootStats)
       \/ \E tag \in FreeTags : Treadlink(tag, 0)
       \/ \E i \in 1..Len(requests), err \in {NoErr, "EINVAL"} :
               TreadlinkDone(i, err, <<47, 97>>)
       \/ \E tag \in FreeTags, name \in FileNames : Tmkdir(tag, 0, name)
       \/ \E i \in 1..Len(requests), err \in {NoErr, "EEXIST"} : TmkdirDone(i, err)
       \/ \E i \in 1..Len(requests), err \in {NoErr, "EIO"} :
               TmkdirStat(i, err, CHOOSE s \in StatsSet : s.node = <<100>>)
       \/ \E tag \in FreeTags, name \in FileNames : Tsymlink(tag, 0, name, <<47, 97>>)
       \/ \E i \in 1..Len(requests), err \in {NoErr, "EEXIST"} : TsymlinkDone(i, err)
       \/ \E i \in 1..Len(requests), err \in {NoErr, "EIO"}, stats \in FileStats :
               TsymlinkStat(i, err, stats)
       \/ \E tag \in FreeTags, name \in FileNames : Tmknod(tag, 0, name)
       \/ \E i \in 1..Len(requests), err \in {NoErr, "EEXIST"} : TmknodDone(i, err)
       \/ \E i \in 1..Len(requests), err \in {NoErr, "EIO"}, stats \in FileStats :
               TmknodStat(i, err, stats)
       \/ \E tag \in FreeTags, name \in FileNames : Tlink(tag, 0, 0, name)
       \/ \E i \in 1..Len(requests), err \in {NoErr, "EEXIST"} : TlinkDone(i, err)
       \/ \E tag \in FreeTags, name \in FileNames : Trenameat(tag, 0, name, 0, "yz")
       \/ \E i \in 1..Len(requests), err \in {NoErr, "ENOENT"} : TrenameatDone(i, err)
       \/ \E tag \in FreeTags, name \in FileNames : Tunlinkat(tag, 0, name)
       \/ \E i \in 1..Len(requests), err \in {NoErr, "ENOENT"}, stats \in FileStats :
               TunlinkatStat(i, err, stats)
       \/ \E i \in 1..Len(requests), err \in {NoErr, "ENOTEMPTY"} :
               TunlinkatRemove(i, err)
       \/ \E tag \in FreeTags, inodes \in {Undefined, 3} : Tstatfs(tag, inodes)
       \/ \E tag \in FreeTags : Tfsync(tag, 0)
       \/ \E tag \in FreeTags : Tlock(tag)
       \/ \E tag \in FreeTags : Txattrcreate(tag, 0)
    /\ Len(requests') <= MaxFidsRequests
    /\ UNCHANGED storageVars

SpecFids == Init /\ [][NextFids]_vars

\* sessions of at most MaxReuseRequests frames in which the client attaches,
\* walks to a file, reads, flushes and reuses the tags of what it flushed
NextReuse ==
    /\ \/ \E uid \in Uids : Tattach(1, 0, NOFID, uid)
       \/ \E i \in 1..Len(requests) : TattachStat(i, NoErr, RootStats)
       \/ Twalk(1, 0, 1, <<"a">>)
       \/ \E i \in 1..Len(requests), stats \in FileStats : TwalkStat(i, NoErr, stats)
       \/ \E tag \in Tags, fid \in Fids, count \in ReadCounts : Tread(tag, fid, 0, count)
       \/ \E i \in 1..Len(requests) :
               \E r \in ReadFileResults(requests[i].path) : TreadFile(i, r.err, r.data)
       \/ \E tag \in Tags, oldtag \in Tags : Tflush(tag, oldtag)
    /\ Len(requests') <= MaxReuseRequests
    /\ UNCHANGED storageVars

SpecReuse == Init /\ [][NextReuse]_vars

\* BuildReply as a function of the device and its arguments: the ids, tags
\* and payload sizes it is called with (Rlerror's id among them, the tag
\* 0xFFFF, a payload that fills the buffer and the negative one of a read
\* past the end), the registries and the buffer contents it may find
BuildReplyIds == {P9_LERROR, P9_TLOPEN, P9_TFLUSH, P9_TREAD}
BuildReplyTags == {1, 2, 65535}
BuildReplySizes == {0 - 2, 0, 4, 13, 16380}
BuildReplyBuffers ==
    {NewBuffer(InitMsize * 2),
     [NewBuffer(InitMsize * 2) EXCEPT !.data = <<255, 254, 253>>],
     [NewBuffer(InitMsize * 2) EXCEPT !.data = [k \in 1..24 |-> 200 + k]]}

\* a device that is about to call BuildReply(id, tag, payloadsize); the call
\* is kept in requests
InitBuildReply ==
    /\ fids = [f \in {} |-> 0]
    /\ \E S \in SUBSET BuildReplyTags : pendingTags = [t \in S |-> EmptyObject]
    /\ msize = InitMsize
    /\ replybuffer \in BuildReplyBuffers
    /\ replybuffersize \in {0, 11}
    /\ \E id \in BuildReplyIds, tag \in BuildReplyTags, n \in BuildReplySizes :
           requests = <<NewRequest(id, tag, 0, n, "", "call", {})>>
    /\ sent = <<>>
    /\ sessionAborted = FALSE
    /\ filedata = [h \in {} |-> <<>>]
    /\ storageLog = <<>>
    /\ PackConstructed([idb_key |-> FALSE, prefix_length |-> 1])
    /\ idb = [u \in {} |-> 0]

\* Virtio9p.prototype.BuildReply
CallBuildReply ==
    /\ requests[1].pc = "call"
    /\ Commit(BuildReply(Dev, requests[1].id, requests[1].tag, requests[1].arg))
    /\ requests' = [requests EXCEPT ![1].pc = "returned"]
    /\ UNCHANGED <<sent, sessionAborted, storageVars>>

SpecBuildReply == InitBuildReply /\ [][CallBuildReply]_vars

\* ------------------------------------------ browser/filestorage.js

\* the sha256sum strings the callers use, all non-empty (dbg_assert)
Hashes == {"a1", "b2"}
\* the Uint8Array contents handed to cache
Datas == {<<>>, <<7>>, <<1, 2, 3>>}
StorageOffsets == {0, 1, 3, 4}
StorageCounts == {0, 1, 2, 5}

\* the value null, and a Uint8Array with its bytes
Null == [null |-> TRUE, bytes |-> <<>>]
Bytes(seq) == [null |-> FALSE, bytes |-> seq]

\* Map.prototype.get: the value stored under key, or undefined
MapGet(map, key) ==
    IF key \in DOMAIN map THEN [undefined |-> FALSE, value |-> map[key]]
    ELSE [undefined |-> TRUE, value |-> <<>>]

\* an index argument of subarray, relative to the end when negative and
\* clamped to 0..len
RelativeIndex(k, len) == IF k < 0 THEN Max(len + k, 0) ELSE Min(k, len)

\* subarray reading its second argument as a length
subarray_EndAsLength(data, begin, end) ==
    LET b == RelativeIndex(begin, Len(data))
        e == Min(b + Max(end, 0), Len(data))
    IN  IF e > b THEN SubSeq(data, b + 1, e) ELSE <<>>

\* TypedArray.prototype.subarray(begin, end)
subarray(data, begin, end) ==
    LET b == RelativeIndex(begin, Len(data))
        e == RelativeIndex(end, Len(data))
    IN  IF e > b THEN SubSeq(data, b + 1, e) ELSE <<>>

StorageCall(op, h, offset, count, data, result) ==
    [op |-> op, sha256sum |-> h, offset |-> offset, count |-> count,
     data |-> data, result |-> result]

\* MemoryFileStorage.prototype.read: an async function without await, so
\* its promise is fulfilled with what the body returns
MemoryRead(h, offset, count) ==
    LET data == MapGet(filedata, h)
        \* !data: undefined is falsy, every Uint8Array is an object
        result == IF data.undefined THEN Null
                  ELSE Bytes(subarray(data.value, offset, offset + count))
    IN  /\ storageLog' = Append(storageLog,
                                StorageCall("read", h, offset, count, <<>>, result))
        /\ UNCHANGED filedata

\* MemoryFileStorage.prototype.cache
MemoryCache(h, data) ==
    /\ filedata' = [k \in DOMAIN filedata \cup {h} |->
                        IF k = h THEN data ELSE filedata[k]]
    /\ storageLog' = Append(storageLog, StorageCall("cache", h, 0, 0, data, Null))

\* MemoryFileStorage.prototype.uncache
MemoryUncache(h) ==
    /\ filedata' = [k \in DOMAIN filedata \ {h} |-> filedata[k]]
    /\ storageLog' = Append(storageLog, StorageCall("uncache", h, 0, 0, <<>>, Null))

\* any MaxMemoryCalls calls on one MemoryFileStorage
NextMemory ==
    /\ \/ \E h \in Hashes, offset \in StorageOffsets, count \in StorageCounts :
               MemoryRead(h, offset, count)
       \/ \E h \in Hashes, data \in Datas : MemoryCache(h, data)
       \/ \E h \in Hashes : MemoryUncache(h)
    /\ Len(storageLog') <= MaxMemoryCalls
    /\ UNCHANGED deviceVars
    /\ UNCHANGED packVars

SpecMemory == Init /\ [][NextMemory]_vars

\* ServerPackStorageWrapper. A name is the sequence of its characters

\* the sha256sum arguments of load_from_server: "a1", "a2.t" and "b1"
PackHashes == {<<"a", "1">>, <<"a", "2", ".", "t">>, <<"b", "1">>}

\* the use_pack objects a wrapper is built with: with or without idb_key,
\* prefix_length absent or 2
UsePacks == {[idb_key |-> k, prefix_length |-> n] :
                k \in BOOLEAN, n \in {Undefined, 2}}

\* this.prefix_length = use_pack.prefix_length || 1
prefix_length == IF use_pack.prefix_length \in {Undefined, 0} THEN 1
                 ELSE use_pack.prefix_length

\* String.prototype.substring(0, end)
substring0(s, end) == SubSeq(s, 1, Min(Max(end, 0), Len(s)))

\* String.prototype.split('.')[0]: the characters before the first dot
RECURSIVE split0(_)
split0(s) == IF s = <<>> \/ Head(s) = "." THEN <<>>
             ELSE <<Head(s)>> \o split0(Tail(s))

\* the files of the server: for each prefix the flat array of <prefix>.map.json
\* (name, size, name, size, ...) and the bytes of <prefix>.pack, in which the
\* files lie one after the other
ServerFiles(prefix) ==
    CASE prefix = <<"a">> ->
            [map |-> << <<"a", "1">>, 2, <<"a", "2">>, 3 >>,
             pack |-> <<11, 12, 21, 22, 23>>]
      [] prefix = <<"b">> ->
            [map |-> << <<"b", "1">>, 1 >>, pack |-> <<31>>]
      [] prefix = <<"a", "1">> ->
            [map |-> << <<"a", "1">>, 2 >>, pack |-> <<11, 12>>]
      [] prefix = <<"a", "2">> ->
            [map |-> << <<"a", "2">>, 3 >>, pack |-> <<21, 22, 23>>]
      [] prefix = <<"b", "1">> ->
            [map |-> << <<"b", "1">>, 1 >>, pack |-> <<31>>]

\* the resource urls, after this.baseurl
MapUrl(prefix) == prefix \o <<".map.json">>
PackUrl(prefix) == prefix \o <<".pack">>

\* obj[key] = value
PropSet(obj, key, value) ==
    [k \in DOMAIN obj \cup {key} |-> IF k = key THEN value ELSE obj[k]]

\* the done callback of <prefix>.map.json: the while loop that turns the flat
\* array into name -> {start, end}
RECURSIVE InfoMapLoop(_, _, _, _)
InfoMapLoop(resp, i, start, infoMap) ==
    IF i >= Len(resp) THEN infoMap
    ELSE LET fileEnd == start + resp[i + 2]
         IN  InfoMapLoop(resp, i + 2, fileEnd,
                         PropSet(infoMap, resp[i + 1],
                                 [start |-> start, end |-> fileEnd]))

\* a promise: pending, or fulfilled with a value (which may be undefined)
PendingPromise == [settled |-> FALSE, undefined |-> TRUE, value |-> <<>>]
Fulfilled(v) == [settled |-> TRUE, undefined |-> v.undefined, value |-> v.value]

\* this.kv && this.kv.has(resourceUrl): has() returns a promise, which is
\* truthy whatever it resolves to
KvHas(url) == kv

\* new Uint8Array(buffer, byteOffset, length); a buffer that is undefined is
\* taken as the length 0
Uint8Array(buffer, byteOffset, length) ==
    IF buffer.undefined THEN <<>>
    ELSE SubSeq(buffer.value, byteOffset + 1, byteOffset + length)

\* kvsIndexedDB(...).then(ins => { this.kv = ins; })
KvOpened ==
    /\ use_pack.idb_key
    /\ ~kv
    /\ kv' = TRUE
    /\ UNCHANGED <<use_pack, fileInfoMap, packMap, idb, loads, packCalls>>

\* load_from_server up to its first await: the first call of a prefix stores
\* both promises; each executor resolves with this.kv.get(resourceUrl), or
\* asks the server
load_from_server(sha256sum) ==
    LET prefix == substring0(sha256sum, prefix_length)
        first == prefix \notin DOMAIN fileInfoMap
        urls == IF first /\ ~KvHas(MapUrl(prefix))
                THEN <<MapUrl(prefix), PackUrl(prefix)>> ELSE <<>>
    IN  /\ Len(packCalls) < MaxPackCalls
        /\ IF first
           THEN /\ fileInfoMap' =
                      PropSet(fileInfoMap, prefix,
                              IF KvHas(MapUrl(prefix))
                              THEN Fulfilled(MapGet(idb, MapUrl(prefix)))
                              ELSE PendingPromise)
                /\ packMap' =
                      PropSet(packMap, prefix,
                              IF KvHas(PackUrl(prefix))
                              THEN Fulfilled(MapGet(idb, PackUrl(prefix)))
                              ELSE PendingPromise)
           ELSE UNCHANGED <<fileInfoMap, packMap>>
        /\ loads' = loads \o [k \in 1..Len(urls) |->
                                 [url |-> urls[k], prefix |-> prefix,
                                  done |-> FALSE]]
        /\ packCalls' = Append(packCalls,
                               [sha256sum |-> sha256sum, prefix |-> prefix,
                                pc |-> "awaitMap",
                                infoMap |-> PendingPromise,
                                pack |-> PendingPromise,
                                result |-> <<>>])
        /\ UNCHANGED <<use_pack, kv, idb>>

\* the done callback of the load_file of <prefix>.map.json
MapDone(k) ==
    LET prefix == loads[k].prefix
        infoMap == InfoMapLoop(ServerFiles(prefix).map, 0, 0, EmptyObject)
    IN  /\ ~loads[k].done
        /\ loads[k].url = MapUrl(prefix)
        /\ loads' = [loads EXCEPT ![k].done = TRUE]
        /\ idb' = IF kv THEN PropSet(idb, MapUrl(prefix), infoMap) ELSE idb
        /\ fileInfoMap' = [fileInfoMap EXCEPT ![prefix] =
                              Fulfilled([undefined |-> FALSE, value |-> infoMap])]
        /\ UNCHANGED <<use_pack, packMap, kv, packCalls>>

\* the done callback of the load_file of <prefix>.pack
PackDone(k) ==
    LET prefix == loads[k].prefix
        buffer == ServerFiles(prefix).pack
    IN  /\ ~loads[k].done
        /\ loads[k].url = PackUrl(prefix)
        /\ loads' = [loads EXCEPT ![k].done = TRUE]
        /\ idb' = IF kv THEN PropSet(idb, PackUrl(prefix), buffer) ELSE idb
        /\ packMap' = [packMap EXCEPT ![prefix] =
                          Fulfilled([undefined |-> FALSE, value |-> buffer])]
        /\ UNCHANGED <<use_pack, fileInfoMap, kv, packCalls>>

\* const infoMap = await this.fileInfoMap[prefix]
AwaitInfoMap(c) ==
    /\ packCalls[c].pc = "awaitMap"
    /\ fileInfoMap[packCalls[c].prefix].settled
    /\ packCalls' = [packCalls EXCEPT ![c].pc = "awaitPack",
                                      ![c].infoMap = fileInfoMap[packCalls[c].prefix]]
    /\ UNCHANGED <<use_pack, fileInfoMap, packMap, kv, idb, loads>>

\* const pack = await this.packMap[prefix], and the return statement: reading
\* infoMap[hash].start throws a TypeError when infoMap or infoMap[hash] is
\* undefined, which rejects the call
AwaitPack(c) ==
    LET call == packCalls[c]
        pack == packMap[call.prefix]
        hash == split0(call.sha256sum)
        infoMap == call.infoMap
    IN  /\ call.pc = "awaitPack"
        /\ pack.settled
        /\ packCalls' =
              [packCalls EXCEPT ![c] =
                  IF infoMap.undefined \/ hash \notin DOMAIN infoMap.value
                  THEN [call EXCEPT !.pc = "rejected", !.pack = pack]
                  ELSE [call EXCEPT
                          !.pc = "fulfilled", !.pack = pack,
                          !.result = Uint8Array(pack, infoMap.value[hash].start,
                                                infoMap.value[hash].end
                                                  - infoMap.value[hash].start)]]
        /\ UNCHANGED <<use_pack, fileInfoMap, packMap, kv, idb, loads>>

\* the page is loaded again and the constructor builds a new wrapper with the
\* same use_pack; what the IndexedDB table holds stays
PackReload ==
    /\ packCalls # <<>>
    /\ \A c \in 1..Len(packCalls) : packCalls[c].pc \in {"fulfilled", "rejected"}
    /\ \A k \in 1..Len(loads) : loads[k].done
    /\ fileInfoMap' = [p \in {} |-> 0]
    /\ packMap' = [p \in {} |-> 0]
    /\ kv' = FALSE
    /\ loads' = <<>>
    /\ packCalls' = <<>>
    /\ UNCHANGED <<use_pack, idb>>

InitPack ==
    /\ fids = [f \in {} |-> 0]
    /\ pendingTags = [t \in {} |-> 0]
    /\ msize = InitMsize
    /\ replybuffer = NewBuffer(InitMsize * 2)
    /\ replybuffersize = 0
    /\ requests = <<>>
    /\ sent = <<>>
    /\ sessionAborted = FALSE
    /\ filedata = [h \in {} |-> <<>>]
    /\ storageLog = <<>>
    /\ \E up \in UsePacks : PackConstructed(up)
    /\ idb = [u \in {} |-> 0]

\* any MaxPackCalls calls of load_from_server on each wrapper built
NextPack ==
    /\ \/ KvOpened
       \/ \E sha256sum \in PackHashes : load_from_server(sha256sum)
       \/ \E k \in 1..Len(loads) : MapDone(k)
       \/ \E k \in 1..Len(loads) : PackDone(k)
       \/ \E c \in 1..Len(packCalls) : AwaitInfoMap(c)
       \/ \E c \in 1..Len(packCalls) : AwaitPack(c)
       \/ PackReload
    /\ UNCHANGED deviceVars
    /\ UNCHANGED <<filedata, storageLog>>

SpecPack == InitPack /\ [][NextPack]_vars

\* ------------------------------------------------------------------ claims

\* the replies signalled for request i
Replies(i) == {k \in 1..Len(sent) : sent[k].index = i}

\* a reply frame: size[4] type[1] tag[2] body
FrameOf(size, type, tag, body) == LE(size, 4) \o LE(type, 1) \o LE(tag, 2) \o body

FrameType(frame) == frame[5]
FrameTag(frame) == frame[6] + 256 * frame[7]

\* the message ids the switch of ReceiveRequest has a case for
HandledIds == {8, 12, 14, 16, 18, 22, 24, 26, 30, 32, 40, 50, 52, 70, 72, 74,
               76, 100, 104, 108, 110, 116, 118, 120}

LastRequest == requests[Len(requests)]

\* C1: every request of a handled type that is not flushed gets exactly one
\* reply, with its tag and with type id + 1 or Rlerror: never two, and one
\* once its handler has ended
C1_ExactlyOneReply ==
    \A i \in 1..Len(requests) :
        (requests[i].id \in HandledIds /\ ~requests[i].flushed) =>
            /\ Cardinality(Replies(i)) <= 1
            /\ requests[i].pc # "wait" => Cardinality(Replies(i)) = 1
            /\ \A k \in Replies(i) :
                /\ FrameTag(sent[k].frame) = requests[i].tag
                /\ FrameType(sent[k].frame) \in {requests[i].id + 1, 7}

\* C2: a request flushed before its reply was sent is never replied to
C2_NoReplyAfterFlush ==
    \A i \in 1..Len(requests) : requests[i].flushed => Replies(i) = {}

\* C3: a Tflush is answered at once by exactly one Rflush (size 7, type 109,
\* its own tag, no body), and right after it neither oldtag nor its own tag
\* is registered
C3_FlushReply ==
    /\ \A i \in 1..Len(requests) :
        requests[i].id = P9_TFLUSH =>
            /\ Cardinality(Replies(i)) = 1
            /\ \A k \in Replies(i) :
                sent[k].frame = FrameOf(7, 109, requests[i].tag, <<>>)
    /\ (/\ Len(requests) > 0
        /\ LastRequest.id = P9_TFLUSH
        /\ sent[Len(sent)].index = Len(requests))
       => /\ LastRequest.arg \notin DOMAIN pendingTags
          /\ LastRequest.tag \notin DOMAIN pendingTags

\* C3's case: the Tflush just handled named the tag of a request whose
\* backend call is still in flight
C3_Witness ==
    /\ Len(requests) > 0
    /\ LastRequest.id = P9_TFLUSH
    /\ sent[Len(sent)].index = Len(requests)
    /\ \E j \in 1..Len(requests) :
        /\ requests[j].tag = LastRequest.arg
        /\ requests[j].flushed
        /\ requests[j].pc = "wait"

\* C4: when a backend call of a flushed Tsetattr completes, the step writes
\* nothing to the reply buffer, sends nothing and removes no tag
C4_SetattrObservesAbort ==
    [][\A i \in 1..Len(requests) :
        (/\ requests[i].id = P9_TSETATTR
         /\ requests[i].flushed
         /\ requests'[i].wait # requests[i].wait)
        => /\ replybuffer' = replybuffer
           /\ replybuffersize' = replybuffersize
           /\ sent' = sent
           /\ pendingTags' = pendingTags]_vars

\* C5: the registry holds exactly the tags of the requests neither replied
\* to nor flushed, and every registered tag belongs to a request whose
\* handler is still at work
C5_RegistryExact ==
    /\ DOMAIN pendingTags =
        {requests[i].tag :
            i \in {j \in 1..Len(requests) :
                    Replies(j) = {} /\ ~requests[j].flushed}}
    /\ \A t \in DOMAIN pendingTags :
        \E i \in 1..Len(requests) : requests[i].tag = t /\ requests[i].pc = "wait"

\* the errno table as the claim gives it
C6_Errno ==
    [EPERM |-> 1, ENOENT |-> 2, EIO |-> 5, EBADF |-> 9, EBUSY |-> 11,
     EEXIST |-> 17, ENOTDIR |-> 20, EISDIR |-> 21, EINVAL |-> 22,
     ENOTEMPTY |-> 39, ELOOP |-> 40]

C7_UnmappedIsEIO ==
    \A i \in 1..Len(requests) :
        (requests[i].err # NoErr /\ requests[i].err \notin DOMAIN C6_Errno)
        => \A k \in Replies(i) :
            sent[k].frame = FrameOf(11, 7, requests[i].tag, LE(5, 4))

\* C8: a request naming an unbound fid raises no exception and is answered
\* by exactly one Rlerror with errno 9, its tag released
C8_UnboundFidEBADF ==
    \A i \in 1..Len(requests) :
        requests[i].unbound =>
            /\ requests[i].pc # "threw"
            /\ requests[i].pc # "wait" =>
                /\ Cardinality(Replies(i)) = 1
                /\ \A k \in Replies(i) :
                    sent[k].frame = FrameOf(11, 7, requests[i].tag, LE(9, 4))

\* C9: every Tclunk, of a bound fid or not, is answered by Rclunk with an
\* empty body and raises no exception
C9_ClunkNeverFails ==
    \A i \in 1..Len(requests) :
        requests[i].id = P9_TCLUNK =>
            /\ requests[i].pc = "done"
            /\ Cardinality(Replies(i)) = 1
            /\ \A k \in Replies(i) :
                sent[k].frame = FrameOf(7, 121, requests[i].tag, <<>>)

\* C10: a frame with an unhandled id aborts the session, leaves the fid
\* table, msize and the reply buffer as they were, and no reply is ever
\* signalled for it
C10_UnknownIdAborts ==
    [][/\ (/\ Len(requests') = Len(requests) + 1
           /\ requests'[Len(requests')].id \notin HandledIds)
          => /\ sessionAborted'
             /\ sent' = sent
             /\ fids' = fids
             /\ msize' = msize
             /\ replybuffer' = replybuffer
             /\ replybuffersize' = replybuffersize
       /\ \A k \in 1..Len(sent') :
            requests'[sent'[k].index].id \in HandledIds]_vars

\* C10's case: an unhandled id arrived when a fid was bound and a reply was
\* in the reply buffer
C10_Witness ==
    \E i \in 1..Len(requests) :
        /\ requests[i].id \notin HandledIds
        /\ DOMAIN fids # {}
        /\ \E k \in 1..Len(sent) : sent[k].index < i

\* the step is the arrival of a new frame
Arrives == Len(requests') = Len(requests) + 1

\* the 32-bit number at 0-based offset o of a frame
W32(frame, o) ==
    frame[o + 1] + 256 * frame[o + 2] + 65536 * frame[o + 3]
        + 16777216 * frame[o + 4]

\* C11: a frame whose body is shorter than its handler's format is answered
\* at once with Rlerror EINVAL (22): no backend call is issued for it and the
\* fid table stays as it was
C11_MalformedEINVAL ==
    [][(Arrives /\ requests'[Len(requests')].malformed)
        => LET r == requests'[Len(requests')]
           IN  /\ r.pc = "done"
               /\ r.wait = {}
               /\ fids' = fids
               /\ sent' = Append(sent, [index |-> Len(requests'),
                                        frame |-> FrameOf(11, 7, r.tag, LE(22, 4))])]_vars

\* the version string of the claim: "9P2000.L"
C12_VersionString == <<57, 80, 50, 48, 48, 48, 46, 76>>

\* C12: Tversion(m) is answered at once by Rversion carrying min(m, 8192) and
\* the string "9P2000.L", and msize becomes that minimum
C12_VersionMin ==
    [][(Arrives /\ requests'[Len(requests')].id = P9_TVERSION)
        => LET r == requests'[Len(requests')]
               negotiated == Min(r.arg, 8192)
               body == LE(negotiated, 4) \o LE(8, 2) \o C12_VersionString
           IN  /\ msize' = negotiated
               /\ sent' = Append(sent, [index |-> Len(requests'),
                                        frame |-> FrameOf(21, 101, r.tag, body)])]_vars

\* C13: when a Tversion has been processed the fid table is empty
C13_VersionResetsFids ==
    [][(Arrives /\ requests'[Len(requests')].id = P9_TVERSION)
        => DOMAIN fids' = {}]_vars

\* C14: from the reply to the first Tversion on, msize is the value that
\* Rversion carried
C14_MsizeFinal ==
    \A i \in 1..Len(requests) :
        (/\ requests[i].id = P9_TVERSION
         /\ \A j \in 1..(i - 1) : requests[j].id # P9_TVERSION)
        => \A k \in Replies(i) : msize = W32(sent[k].frame, 7)

\* C15: the reply buffer is 2 x msize bytes long
C15_BufferTwiceMsize == replybuffer.length = 2 * msize

\* C16: no reply is longer than the reply buffer, and a Treadlink whose
\* target does not fit into the buffer is answered with Rlerror EIO (5)
C16_ReplyFits ==
    /\ replybuffersize <= replybuffer.length
    /\ \A i \in 1..Len(requests) :
        (/\ requests[i].id = P9_TREADLINK
         /\ requests[i].pc = "done"
         /\ requests[i].err = NoErr
         /\ 7 + 2 + requests[i].arg > replybuffer.length)
        => \A k \in Replies(i) :
            sent[k].frame = FrameOf(11, 7, requests[i].tag, LE(5, 4))

\* request i's handler ends in this step with its reply
Ends(i) == requests[i].pc = "wait" /\ requests'[i].pc = "done"

\* C17: a Tattach binds its fid to ("/", INODE, uid) whatever its afid is,
\* and when the stat of "/" succeeds it is answered by Rattach (size 20, type
\* 105) carrying the 13-byte QID of the root, whose type byte is 0x80
C17_AttachBindsRoot ==
    [][/\ (/\ Arrives
           /\ requests'[Len(requests')].id = P9_TATTACH
           /\ ~requests'[Len(requests')].malformed)
          => LET r == requests'[Len(requests')]
             IN  /\ DOMAIN fids' = DOMAIN fids \cup {r.fid}
                 /\ fids'[r.fid] = [path |-> "/", type |-> 1, uid |-> r.arg.uid]
                 /\ \A f \in DOMAIN fids \ {r.fid} : fids'[f] = fids[f]
       /\ \A i \in 1..Len(requests) :
            (/\ requests[i].id = P9_TATTACH
             /\ Ends(i)
             /\ requests'[i].err = NoErr)
            => /\ Len(sent') = Len(sent) + 1
               /\ LET reply == sent'[Len(sent')]
                  IN  /\ reply.index = i
                      /\ Len(reply.frame) = 20
                      /\ reply.frame[8] = 128
                      /\ \E stats \in StatsOf("/") :
                            reply.frame =
                                FrameOf(20, 105, requests[i].tag,
                                        Marshall(<<"Q">>, <<formatQid("/", stats)>>))]_vars

\* C17's case: a Tattach with an afid other than NOFID was answered by
\* Rattach and its fid is bound
C17_Witness ==
    \E i \in 1..Len(requests) :
        /\ requests[i].id = P9_TATTACH
        /\ requests[i].arg.afid # NOFID
        /\ requests[i].pc = "done"
        /\ requests[i].err = NoErr
        /\ Replies(i) # {}
        /\ requests[i].fid \in DOMAIN fids

\* C18: a Twalk with nwname = 0 on a bound fid binds newfid to (fid's path,
\* INODE, fid's uid), changes no other binding, issues no backend call and is
\* answered at once by Rwalk with nwqid = 0 and no QID
C18_WalkZeroAliases ==
    [][(/\ Arrives
        /\ requests'[Len(requests')].id = P9_TWALK
        /\ ~requests'[Len(requests')].unbound
        /\ requests'[Len(requests')].arg.wnames = <<>>)
        => LET r == requests'[Len(requests')]
               nwfid == r.arg.nwfid
           IN  /\ DOMAIN fids' = DOMAIN fids \cup {nwfid}
               /\ fids'[nwfid] = [path |-> fids[r.fid].path, type |-> 1,
                                   uid |-> fids[r.fid].uid]
               /\ \A f \in DOMAIN fids \ {nwfid} : fids'[f] = fids[f]
               /\ (nwfid # r.fid \/ fids[r.fid].type = 1) => fids'[r.fid] = fids[r.fid]
               /\ r.pc = "done"
               /\ r.wait = {}
               /\ sent' = Append(sent, [index |-> Len(requests'),
                                        frame |-> FrameOf(9, 111, r.tag, <<0, 0>>)])]_vars

\* C18's case: a Twalk with nwname = 0 gave a fid that was not bound the
\* path of another fid
C18_Witness ==
    /\ Len(requests) > 0
    /\ LastRequest.id = P9_TWALK
    /\ ~LastRequest.unbound
    /\ LastRequest.arg.wnames = <<>>
    /\ LastRequest.arg.nwfid # LastRequest.fid
    /\ LastRequest.arg.nwfid \notin DOMAIN LastRequest.arg.fids0
    /\ Replies(Len(requests)) # {}
    /\ sent[Len(sent)].index = Len(requests)

\* no request but request i, the last to arrive, can have changed the fid
\* table since i arrived
Alone(i) ==
    /\ i = Len(requests)
    /\ \A j \in 1..(i - 1) : requests[j].id # P9_TWALK

\* C19: when the stat of a component of a Twalk fails, the reply is Rlerror
\* with the errno of that failure and the fid table is what it was when the
\* Twalk arrived
C19_WalkFailureLeavesFids ==
    [][\A i \in 1..Len(requests) :
        (/\ requests[i].id = P9_TWALK
         /\ Ends(i)
         /\ requests'[i].err # NoErr)
        => /\ requests'[i].err \in DOMAIN C6_Errno
                => sent' = Append(sent,
                        [index |-> i,
                         frame |-> FrameOf(11, 7, requests[i].tag,
                                           LE(C6_Errno[requests'[i].err], 4))])
           /\ Alone(i) => fids' = requests[i].arg.fids0]_vars

\* the components of names joined in order onto path
RECURSIVE C20_JoinAll(_, _)
C20_JoinAll(path, names) ==
    IF names = <<>> THEN path
    ELSE C20_JoinAll(Join(path, Head(names)), Tail(names))

\* the QIDs of the paths and their stats, marshalled one after the other
RECURSIVE C20_Qids(_, _)
C20_Qids(paths, stats) ==
    IF paths = <<>> THEN <<>>
    ELSE Marshall(<<"Q">>, <<formatQid(Head(paths), Head(stats))>>)
            \o C20_Qids(Tail(paths), Tail(stats))

\* C20: a Twalk of k >= 1 components that all stat successfully has issued
\* exactly k stats, of the paths obtained by joining the components in order
\* onto fid's path, leaves newfid bound to the last of these paths, and its
\* one reply is Rwalk with nwqid = k and the k QIDs in walk order
C20_WalkSuccess ==
    [][\A i \in 1..Len(requests) :
        (/\ requests[i].id = P9_TWALK
         /\ Ends(i)
         /\ requests'[i].err = NoErr
         /\ Len(requests[i].arg.wnames) >= 1
         /\ Len(requests'[i].arg.stats) = Len(requests[i].arg.wnames))
        => LET w == requests'[i].arg
               k == Len(w.wnames)
           IN  /\ w.statted =
                    [n \in 1..k |-> C20_JoinAll(w.path0, SubSeq(w.wnames, 1, n))]
               /\ w.nwfid \in DOMAIN fids'
               /\ fids'[w.nwfid].path = C20_JoinAll(w.path0, w.wnames)
               /\ sent' = Append(sent,
                    [index |-> i,
                     frame |-> FrameOf(7 + 2 + 13 * k, 111, requests[i].tag,
                                       LE(k, 2) \o C20_Qids(w.statted, w.stats))])]_vars

\* request i's handler takes a step
Steps(i) == requests'[i] # requests[i]

\* C21: the step in which a Tlcreate succeeds rebinds its fid to the path
\* joined from fid's previous path and the name, with kind INODE, changes no
\* other fid and sends Rlcreate (size 24, type 15) with the file's QID and
\* iounit = msize - 24; every other step of a Tlcreate, and every step of a
\* flushed one, leaves the fid table as it is
C21_LcreateRebinds ==
    [][\A i \in 1..Len(requests) :
        (requests[i].id = P9_TLCREATE /\ Steps(i))
        => IF Ends(i) /\ requests'[i].err = NoErr /\ ~requests[i].flushed
           THEN LET r == requests'[i]
                    qid == formatQid(r.path, r.arg.stats[1])
                IN  /\ DOMAIN fids' = DOMAIN fids \cup {r.fid}
                    /\ fids'[r.fid].path = Join(r.arg.path0, r.arg.name)
                    /\ fids'[r.fid].type = 1
                    /\ \A f \in DOMAIN fids \ {r.fid} : fids'[f] = fids[f]
                    /\ sent' = Append(sent,
                        [index |-> i,
                         frame |-> FrameOf(24, 15, r.tag,
                                           Marshall(<<"Q">>, <<qid>>)
                                               \o LE(msize - 24, 4))])
           ELSE fids' = fids]_vars

\* C22: of the Treads that arrive under one tag at most one calls readFile:
\* once a Tread got the file's data, no later Tread of that file under the
\* same tag calls readFile
C22_OneReadFilePerTag ==
    \A i, j \in 1..Len(requests) :
        (/\ i < j
         /\ requests[i].id = P9_TREAD /\ requests[j].id = P9_TREAD
         /\ requests[i].tag = requests[j].tag
         /\ requests[i].path = requests[j].path
         /\ requests[i].arg.data # <<>>)
        => ~requests[j].arg.readFile

\* C23: the step in which a Tread of a file of size S succeeds sends Rread
\* (type 117) with the count min(count, S - offset), never below 0, and
\* exactly the bytes file[offset, offset + that count)
C23_ReadClamp ==
    [][\A i \in 1..Len(requests) :
        (requests[i].id = P9_TREAD /\ Ends(i) /\ requests'[i].err = NoErr)
        => LET r == requests'[i]
               data == r.arg.data[1]
               c == Max(0, Min(r.arg.count, Len(data) - r.arg.offset))
           IN  sent' = Append(sent,
                   [index |-> i,
                    frame |-> FrameOf(11 + c, 117, r.tag,
                                      LE(c, 4) \o SubSeq(data, r.arg.offset + 1,
                                                         r.arg.offset + c))])]_vars

\* a Treaddir that was answered without error
ReaddirDone(i) ==
    /\ requests[i].id = P9_TREADDIR
    /\ requests[i].pc = "done"
    /\ requests[i].err = NoErr

\* the entries of the buffer of request i: ".", "..", then the listing
C24_Items(i) ==
    LET a == requests[i].arg
    IN  <<[name |-> ".", stats |-> a.stats[1]],
          [name |-> "..", stats |-> a.stats[2]]>>
        \o [k \in 1..Len(a.entries) |->
                [name |-> a.entries[k].name, stats |-> a.entries[k]]]

\* qid[13] offset[8] type[1] name[s] for each item, the first at byte
\* start, each offset field the start of the next entry
RECURSIVE C24_Buffer(_, _)
C24_Buffer(items, start) ==
    IF items = <<>> THEN <<>>
    ELSE LET it == Head(items)
             name == UTF8[it.name]
             next == start + 13 + 8 + 1 + 2 + Len(name)
         IN  Marshall(<<"Q">>, <<formatQid("", it.stats)>>)
                 \o LE(next, 8) \o <<it.stats.mode \div 4096>>
                 \o LE(Len(name), 2) \o name
                 \o C24_Buffer(Tail(items), next)

\* C24: the buffer a Treaddir builds is the entry of ".", the entry of "..",
\* then one entry per entry of the backend's listing in its order, each entry
\* qid[13] offset[8] type[1] name[s] with type = mode >> 12 and offset the
\* byte offset of the next entry; it fills exactly the size computed up front
C24_ReaddirBuffer ==
    \A i \in 1..Len(requests) :
        ReaddirDone(i)
        => LET a == requests[i].arg
           IN  /\ BufferBytes(a.data) = C24_Buffer(C24_Items(i), 0)
               /\ a.dataOffset = a.size
               /\ a.data.length = a.size

C24_Witness ==
    \E i \in 1..Len(requests) :
        /\ ReaddirDone(i)
        /\ Len(requests[i].arg.entries) = 2
        /\ requests[i].arg.entries[1].mode \div 4096
             # requests[i].arg.entries[2].mode \div 4096

\* C25: the step in which a Treaddir succeeds sends Rreaddir (type 41) with
\* the bytes [offset, min(offset + count, T)) of its buffer of size T and a
\* count field equal to the number of those bytes, 0 when offset >= T
C25_ReaddirSlice ==
    [][\A i \in 1..Len(requests) :
        (requests[i].id = P9_TREADDIR /\ Ends(i) /\ requests'[i].err = NoErr)
        => LET r == requests'[i]
               data == BufferBytes(r.arg.data)
               c == Max(0, Min(r.arg.count, Len(data) - r.arg.offset))
           IN  sent' = Append(sent,
                   [index |-> i,
                    frame |-> FrameOf(11 + c, 41, r.tag,
                                      LE(c, 4) \o SubSeq(data, r.arg.offset + 1,
                                                         r.arg.offset + c))])]_vars

\* the backend calls the attribute groups of a request mask ask for
C26_Groups(valid) ==
    (IF Bit(valid, P9_SETATTR_MODE) THEN {"chmod"} ELSE {})
    \cup (IF Bit(valid, P9_SETATTR_UID) /\ Bit(valid, P9_SETATTR_GID)
          THEN {"chown"} ELSE {})
    \cup (IF \/ Bit(valid, P9_SETATTR_ATIME) \/ Bit(valid, P9_SETATTR_MTIME)
             \/ Bit(valid, P9_SETATTR_ATIME_SET) \/ Bit(valid, P9_SETATTR_MTIME_SET)
          THEN {"utimes"} ELSE {})
    \cup (IF Bit(valid, P9_SETATTR_SIZE) THEN {"truncate"} ELSE {})

\* every Tsetattr has at most one reply; Rsetattr (size 7, type 27) is sent
\* in the step in which the last issued call succeeds (on arrival when none
\* was issued), Rlerror (type 7) in the step in which the first call fails,
\* with that call's errno
C26_OneReply ==
    /\ \A i \in 1..Len(requests') :
          requests'[i].id = P9_TSETATTR => Cardinality(Replies(i)') <= 1
    /\ \A i \in 1..Len(requests') :
          (requests'[i].id = P9_TSETATTR /\ ~requests'[i].unbound
           /\ Replies(i)' # Replies(i))
          => LET r == requests'[i]
                 frame == sent'[Len(sent')].frame
             IN  /\ sent'[Len(sent')].index = i
                 /\ IF r.err = NoErr
                    THEN r.wait = {} /\ frame = FrameOf(7, 27, r.tag, <<>>)
                    ELSE /\ i <= Len(requests) /\ requests[i].err = NoErr
                         /\ frame = FrameOf(11, P9_LERROR + 1, r.tag,
                                            LE(POSIX_ERR_CODE_MAP[r.err], 4))
    /\ \A i \in 1..Len(requests) :
          (requests[i].id = P9_TSETATTR /\ requests[i].pc = "wait"
           /\ requests'[i].wait = {})
          => Replies(i)' # {}

\* C26: a Tsetattr issues one backend call per attribute group its mask asks
\* for (chmod for MODE, chown for UID with GID, utimes for the time bits,
\* truncate for SIZE) and has exactly one reply: Rsetattr after every issued
\* call succeeded, or Rlerror with the error of the first call that failed
C26_SetattrGroups ==
    [][/\ (/\ Arrives
           /\ requests'[Len(requests')].id = P9_TSETATTR
           /\ ~requests'[Len(requests')].unbound)
          => requests'[Len(requests')].wait
                = C26_Groups(requests'[Len(requests')].arg.valid)
       /\ C26_OneReply]_vars

\* the Rlerror frame of an errno kind
ErrorFrame(tag, err) ==
    FrameOf(11, P9_LERROR + 1, tag, LE(POSIX_ERR_CODE_MAP[err], 4))

\* C27: a Tmknod whose mknod and stat succeeded made a regular file at the
\* path joined from dfid's path and the name, and is answered by exactly one
\* frame, Rmknod (size 20, type 19) with the 13-byte QID of the new file
C27_MknodReply ==
    \A i \in 1..Len(requests) :
        (requests[i].id = P9_TMKNOD /\ requests[i].arg.stats # <<>>)
        => /\ requests[i].arg.calls[1]
                = [op |-> "mknod", path |-> requests[i].path, type |-> "FILE"]
           /\ \E k \in 1..Len(sent) :
                /\ Replies(i) = {k}
                /\ sent[k].frame
                     = FrameOf(20, 19, requests[i].tag,
                               Marshall(<<"Q">>,
                                        <<formatQid(requests[i].path,
                                                    requests[i].arg.stats[1])>>))

ReplyFrame(i) == sent[CHOOSE k \in Replies(i) : TRUE].frame

\* the entries of a directory buffer as pairs of the stats an entry was made
\* from and the 13 bytes of its QID
RECURSIVE C29_EntryQids(_, _, _)
C29_EntryQids(items, start, bytes) ==
    IF items = <<>> THEN {}
    ELSE {[stats |-> Head(items).stats,
           qid |-> SubSeq(bytes, start + 1, start + 13)]}
         \cup C29_EntryQids(Tail(items),
                            start + 13 + 8 + 1 + 2 + UTF8Length(Head(items).name),
                            bytes)

\* the QIDs request i reported, each with the stats it was reported for
C29_Qids(i) ==
    LET r == requests[i]
    IN  IF r.pc # "done" \/ r.err # NoErr \/ r.unbound \/ Replies(i) = {} THEN {}
        ELSE CASE r.id = P9_TWALK ->
                    {[stats |-> r.arg.stats[k],
                      qid |-> SubSeq(ReplyFrame(i), 10 + 13 * (k - 1), 9 + 13 * k)] :
                        k \in 1..Len(r.arg.stats)}
               [] r.id = P9_TLOPEN ->
                    {[stats |-> r.arg[1], qid |-> SubSeq(ReplyFrame(i), 8, 20)]}
               [] r.id = P9_TGETATTR ->
                    {[stats |-> r.arg[1], qid |-> SubSeq(ReplyFrame(i), 16, 28)]}
               [] r.id = P9_TREADDIR ->
                    C29_EntryQids(C24_Items(i), 0, BufferBytes(r.arg.data))
               [] OTHER -> {}

\* the path field of the 13 bytes of a QID
QidPath(qid) == SubSeq(qid, 6, 13)

\* C29: the QIDs in Rwalk, Rlopen, Rgetattr and the entries of Treaddir are
\* a function of the node, version and type the backend reported, whatever
\* the path: two of them reported for the same node have the same qid.path,
\* and for the same node, version and type they are the same 13 bytes
C29_QidOfNode ==
    \A i, j \in 1..Len(requests) :
        \A p \in C29_Qids(i), q \in C29_Qids(j) :
            /\ p.stats.node = q.stats.node => QidPath(p.qid) = QidPath(q.qid)
            /\ (/\ p.stats.node = q.stats.node
                /\ p.stats.version = q.stats.version
                /\ p.stats.type = q.stats.type) => p.qid = q.qid

C31_LastChange(k) ==
    LET h == storageLog[k].sha256sum
        before == {j \in 1..(k - 1) : /\ storageLog[j].sha256sum = h
                                      /\ storageLog[j].op # "read"}
    IN  IF before = {} THEN 0
        ELSE CHOOSE j \in before : \A m \in before : m <= j

C31_Clamped(d, offset, count) ==
    LET lo == Min(offset, Len(d))
        hi == Min(offset + count, Len(d))
    IN  [n \in 1..(hi - lo) |-> d[lo + n]]

C31_MemoryStorage ==
    \A k \in 1..Len(storageLog) :
        storageLog[k].op = "read" =>
            LET j == C31_LastChange(k)
                r == storageLog[k]
            IN  IF j = 0 \/ storageLog[j].op = "uncache"
                THEN r.result = Null
                ELSE r.result = Bytes(C31_Clamped(storageLog[j].data,
                                                  r.offset, r.count))

\* a read cut short by the end of the data that replaced an earlier cache
C31_Witness ==
    /\ Len(storageLog) = 3
    /\ storageLog[1].op = "cache" /\ storageLog[2].op = "cache"
    /\ storageLog[1].data # storageLog[2].data
    /\ storageLog[3].op = "read"
    /\ storageLog[1].sha256sum = storageLog[3].sha256sum
    /\ storageLog[2].sha256sum = storageLog[3].sha256sum
    /\ storageLog[3].result.null = FALSE
    /\ Len(storageLog[3].result.bytes) \in 1..(storageLog[3].count - 1)
    /\ storageLog[3].offset > 0

\* request i was flushed while its backend call was in flight, and request
\* j, not flushed and not answered, arrived later under the same tag
C32_Reuses(i, j) ==
    /\ i < j
    /\ requests[i].tag = requests[j].tag
    /\ requests[i].flushed /\ requests[i].pc = "wait"
    /\ ~requests[j].flushed /\ Replies(j) = {}

\* C32: while a flushed request is in flight and a newer request holds its
\* tag, the older request's completion sends nothing and leaves the registry
\* as it is, every frame sent with that tag is the newer request's (type
\* id + 1 or Rlerror), and when the newer request's handler ends it has sent
\* exactly one reply
C32_TagReuse ==
    [][\A i \in 1..Len(requests), j \in 1..Len(requests) :
        C32_Reuses(i, j) =>
            /\ Steps(i) => (sent' = sent /\ pendingTags' = pendingTags)
            /\ (/\ Len(sent') > Len(sent)
                /\ FrameTag(sent'[Len(sent')].frame) = requests[j].tag)
               => /\ sent'[Len(sent')].index = j
                  /\ FrameType(sent'[Len(sent')].frame)
                        \in {requests[j].id + 1, P9_LERROR + 1}
            /\ (Steps(j) /\ requests'[j].wait = {})
               => /\ requests'[j].pc = "done"
                  /\ Len(sent') = Len(sent) + 1
                  /\ sent'[Len(sent')].index = j]_vars

\* C33: from the first body byte a handler writes for a reply until that
\* reply is sent, no step of another request changes the bytes written: a
\* Twalk that has marshalled QIDs from offset 9 on and waits for its next
\* stat finds them untouched by whatever else runs in between
C33_ReplyWindow ==
    [][\A i \in 1..Len(requests) :
        (/\ requests[i].id = P9_TWALK
         /\ requests[i].pc = "wait"
         /\ ~requests[i].flushed
         /\ requests[i].arg.stats # <<>>
         /\ ~Steps(i))
        => \A o \in 9..(requests[i].arg.offset - 1) :
               ByteAt(replybuffer', o) = ByteAt(replybuffer, o)]_vars

\* C34: when the handler of a Tlcreate or Twrite has finished, by a reply,
\* by Rlerror or by a silent abort, the file descriptor its open gave, if
\* any, was closed exactly once, and fs.close was never called without one
C34_FdsClosedOnce ==
    \A i \in 1..Len(requests) :
        (requests[i].id \in {P9_TLCREATE, P9_TWRITE} /\ ~requests[i].unbound)
        => /\ requests[i].arg.closes <= (IF requests[i].arg.opened THEN 1 ELSE 0)
           /\ (requests[i].pc \in {"done", "aborted"} /\ requests[i].arg.opened)
              => requests[i].arg.closes = 1

\* C35: once a Tflush naming its tag has been processed, no step of the
\* flushed request's handler changes the fid table: a flushed Tlcreate does
\* not rebind its fid and a flushed Twalk binds newfid to nothing more
C35_FlushedLeavesFids ==
    [][\A i \in 1..Len(requests) :
        (requests[i].flushed /\ Steps(i)) => fids' = fids]_vars

\* the request types that may change the fid table
C36_Changers ==
    {P9_TATTACH, P9_TWALK, P9_TLCREATE, P9_TXATTRWALK, P9_TCLUNK, P9_TVERSION}

\* request i arrives or a callback of it runs in this step
C36_Acts(i) ==
    \/ i > Len(requests)
    \/ [requests'[i] EXCEPT !.flushed = requests[i].flushed] # requests[i]

\* the fid request r may bind, rebind or remove
C36_Target(r) ==
    CASE r.unbound -> r.fid
      [] r.id = P9_TWALK -> r.arg.nwfid
      [] r.id = P9_TXATTRWALK -> r.arg.newfid
      [] OTHER -> r.fid

\* the fids whose binding this step adds, removes or changes
C36_Changed ==
    {f \in DOMAIN fids \cup DOMAIN fids' :
        \/ f \notin DOMAIN fids
        \/ f \notin DOMAIN fids'
        \/ fids'[f] # fids[f]}

\* C36: a step in which a request of another type than Tattach, Twalk,
\* Tlcreate, Txattrwalk, Tclunk and Tversion arrives, completes, fails or
\* aborts leaves the fid table as it is, and a step of one of these six
\* changes at most the binding of the fid (newfid for the walks) it names
C36_FidTableChanges ==
    [][\A i \in 1..Len(requests') :
        C36_Acts(i) =>
            IF requests'[i].id \in C36_Changers
            THEN C36_Changed \subseteq {C36_Target(requests'[i])}
            ELSE fids' = fids]_vars

\* a Trenameat has succeeded, and a Tunlinkat was flushed and aborted, with
\* two fids bound
C36_Witness ==
    /\ DOMAIN fids = {0, 1}
    /\ \E i \in 1..Len(requests) :
        /\ requests[i].id \in {P9_TRENAMEAT, P9_TUNLINKAT, P9_TMKDIR}
        /\ requests[i].pc \in {"done", "aborted"}
        /\ requests[i].err = NoErr

\* C37: BuildReply(id, tag, n) leaves in bytes 0..3 of the reply buffer the
\* little-endian number n + 7, in byte 4 id + 1 and in bytes 5..6 the tag,
\* leaves every byte from offset 7 on and the buffer's length as they were,
\* sets replybuffersize to n + 7, and takes tag and no other tag out of the
\* registry, whose other scratch objects stay as they were
C37_BuildReply ==
    [][(requests[1].pc = "call" /\ requests'[1].pc = "returned")
        => LET id == requests[1].id
               tag == requests[1].tag
               n == requests[1].arg
           IN  /\ ByteAt(replybuffer', 0) + 256 * ByteAt(replybuffer', 1)
                    + 65536 * ByteAt(replybuffer', 2)
                    + 16777216 * ByteAt(replybuffer', 3) = n + 7
               /\ ByteAt(replybuffer', 4) = id + 1
               /\ ByteAt(replybuffer', 5) + 256 * ByteAt(replybuffer', 6) = tag
               /\ \A o \in 7..30 : ByteAt(replybuffer', o) = ByteAt(replybuffer, o)
               /\ replybuffer'.length = replybuffer.length
               /\ replybuffersize' = n + 7
               /\ DOMAIN pendingTags' = DOMAIN pendingTags \ {tag}
               /\ \A t \in DOMAIN pendingTags' : pendingTags'[t] = pendingTags[t]
               /\ fids' = fids /\ msize' = msize]_vars

\* BuildReply has returned for a tag that was registered next to another
\* one, on a buffer that held bytes beyond the header
C37_Witness ==
    /\ requests[1].pc = "returned"
    /\ requests[1].tag = 65535
    /\ requests[1].arg = 13
    /\ DOMAIN pendingTags = {1, 2}
    /\ ByteAt(replybuffer, 20) = 221
    /\ replybuffersize = 20

\* C38: a Tsetattr whose mask has one of ATIME, MTIME, ATIME_SET, MTIME_SET
\* issues exactly one utimes call, whose atime (mtime) is the provided
\* seconds in milliseconds when ATIME_SET (MTIME_SET) is set, seconds 0
\* included, and the clock read by the handler when only ATIME (MTIME) is
\* set; a mask with none of the four bits, CTIME alone included, issues none
C38_TimeBits(valid) ==
    \/ Bit(valid, P9_SETATTR_ATIME) \/ Bit(valid, P9_SETATTR_MTIME)
    \/ Bit(valid, P9_SETATTR_ATIME_SET) \/ Bit(valid, P9_SETATTR_MTIME_SET)

C38_Utimes ==
    \A i \in 1..Len(requests) :
        (requests[i].id = P9_TSETATTR /\ ~requests[i].unbound)
        => LET a == requests[i].arg
           IN  IF C38_TimeBits(a.valid)
               THEN /\ Len(a.utimes) = 1
                    /\ Bit(a.valid, P9_SETATTR_ATIME_SET)
                          => a.utimes[1].atime = a.atime_sec * 1000
                    /\ (Bit(a.valid, P9_SETATTR_ATIME)
                        /\ ~Bit(a.valid, P9_SETATTR_ATIME_SET))
                          => a.utimes[1].atime = a.now
                    /\ Bit(a.valid, P9_SETATTR_MTIME_SET)
                          => a.utimes[1].mtime = a.mtime_sec * 1000
                    /\ (Bit(a.valid, P9_SETATTR_MTIME)
                        /\ ~Bit(a.valid, P9_SETATTR_MTIME_SET))
                          => a.utimes[1].mtime = a.now
               ELSE a.utimes = <<>>

\* C39: the load_from_server calls of one wrapper ask the server at most
\* once for <prefix>.map.json and at most once for <prefix>.pack, and a call
\* that is fulfilled had both resources in hand - the info map and the pack
\* of its prefix as the server has them - and is fulfilled with the bytes of
\* the pack between the start and the end recorded for its hash
C39_Expected(call) ==
    LET files == ServerFiles(call.prefix)
        infoMap == InfoMapLoop(files.map, 0, 0, EmptyObject)
        hash == split0(call.sha256sum)
    IN  [infoMap |-> infoMap, pack |-> files.pack,
         result |-> SubSeq(files.pack, infoMap[hash].start + 1, infoMap[hash].end)]

C39_RequestedOnce ==
    \A j, k \in 1..Len(loads) : loads[j].url = loads[k].url => j = k

C39_LoadOnce ==
    /\ C39_RequestedOnce
    /\ \A c \in 1..Len(packCalls) :
          packCalls[c].pc = "fulfilled"
          => /\ ~packCalls[c].infoMap.undefined
             /\ packCalls[c].infoMap.value = C39_Expected(packCalls[c]).infoMap
             /\ ~packCalls[c].pack.undefined
             /\ packCalls[c].pack.value = C39_Expected(packCalls[c]).pack
             /\ packCalls[c].result = C39_Expected(packCalls[c]).result

====
